---- MODULE Spec2Model ----
(***************************************************************************)
(* A model of aerialbot's tile acquisition pipeline (src/aerialbot.py):    *)
(* main's resampling loop, the imagery quality gate, MapTile.load and      *)
(* MapTile.download, MapTileGrid.download with its worker pool, progress   *)
(* monitor thread and retry pass, MapTileGrid.stitch, and the pure         *)
(* functions GeoPoint.compute_zoom_level and GeoShape.random_geopoint.     *)
(*                                                                         *)
(* Spec       one run of main()                                            *)
(* SpecZoom   GeoPoint.compute_zoom_level applied to drawn inputs          *)
(* SpecShape  one call of GeoShape.random_geopoint                         *)
(* SpecGate   has_high_quality_imagery on a freshly built grid             *)
(* SpecPool   MapTileGrid.download on grids of several shapes              *)
(* SpecTiles  projections, MapTileGrid.from_georect, zoomed, stitch, crop  *)
(* SpecWrap   rectangles that cross the antimeridian                       *)
(* SpecRetry  one call of Tooter.__retry__                                 *)
(***************************************************************************)
EXTENDS Integers, Sequences, FiniteSets, TLC

VARIABLES
    \* ---- configuration read by main (fixed during a run)
    verbosity,      \* VERBOSITY
    pathTemplate,   \* MapTile.tile_path_template is configured (tile store on)
    pinned,         \* a point is configured (point is not None)
    max_tries,      \* max_tries
    quality_check_delta, \* quality_check_delta
    \* ---- main thread
    pc,             \* position of the main thread
    iter,           \* number of loop bodies of main's for loop begun so far
    rejected,       \* has_high_quality_imagery returned False for the current grid
    fatal,          \* the exception that ended main, "none" while there is none
    named,          \* the tiles named by the 'unable to load' RuntimeError
    \* ---- the current MapTileGrid
    width, height,  \* grid.width, grid.height
    origin,         \* zoom, direction, x and y of the tile grid.maptiles[0][0]
    status,         \* maptile.status of each tile of the grid
    image,          \* maptile.image of each tile: "none" is None
    written,        \* the tiles whose file in the tile store download() has written
    loads,          \* number of calls of maptile.load() per tile
    gets,           \* number of requests.get() calls per tile
    urls,           \* the URLs requested for each tile
    \* ---- has_high_quality_imagery
    corner,         \* index into corners of the probe being loaded
    corners,        \* zoom, direction, x and y of each probe tile in corners
    probe,          \* status of each probe tile in corners
    gateCalls,      \* number of calls of has_high_quality_imagery
    \* ---- MapTileGrid.download
    tiles,          \* the shuffled list handed to the executor
    taken,          \* number of submitted tasks the pool's workers have taken
    running,        \* tiles whose load() is executing on a pool worker
    monitor,        \* the ProgressIndicator thread: "none", "run", "exited"
    missing_tiles,  \* missing_tiles of line 809, as a sequence in flat() order
    retryIdx,       \* index into missing_tiles of the retry loop
    poolErrors,     \* the tiles that were in ERROR when the pool had drained
    faulted,        \* tiles whose download hit an invalid image body
    \* ---- GeoPoint.compute_zoom_level (SpecZoom)
    zlat, zmax, zpc, zzoom, zresult,
    zlooser,        \* a second call for the same point: its constraint and result
    \* ---- GeoShape.random_geopoint (SpecShape)
    gi, gdraws, gpc, gshape, gu,
    \* ---- projections, to_maptile, from_georect, zoomed, crop (SpecTiles)
    georect,        \* the GeoRect: its corners sw and ne
    tzoom,          \* zoom
    tdirection,     \* direction
    tpc,            \* position in the sequence of calls
    cropped,        \* crop(): the projections of sw and ne it computes
    bottomleft,     \* from_georect(): georect.sw.to_maptile(zoom, direction)
    topright,       \* from_georect(): georect.ne.to_maptile(zoom, direction)
    tgrid,          \* the MapTileGrid from_georect returns
    subgrid,        \* a call of zoomed() on the tile bottomleft: zoom_delta,
                    \* the tile when it is called and the MapTileGrid returned
    crop,           \* crop(): the tuple crop handed to ImageOps.crop
    imsize,         \* (width, height) in pixels of the stitched, then cropped image
    \* ---- GeoRects across the antimeridian (SpecWrap)
    wrect,          \* the GeoRect: lat and lon of sw and ne, in degrees
    wpc,            \* position in the sequence of calls
    wlon,           \* GeoPoint.random(wrect): the longitude drawn, or Raised
    warea,          \* wrect.area(), or Raised
    wcolumns,       \* the x of the columns of MapTileGrid.from_georect(wrect, ...)
    waround,        \* GeoRect.around_geopoint(centre, ...): centre, width_geo, result
    \* ---- Tooter.__retry__ (SpecRetry)
    rfn,            \* fn: "upload" is __do_upload__, "toot" is __do_toot__
    rinitial,       \* tries as passed by the caller
    rtries,         \* tries
    rdelay,         \* delay
    rpc,            \* position in __retry__
    rlog,           \* the calls of fn (with their outcomes) and of time.sleep so far
    rresult         \* what __retry__ returned or raised

cfgVars   == <<verbosity, pathTemplate, pinned, max_tries, quality_check_delta>>
mainVars  == <<pc, iter, rejected, fatal, named>>
gridVars  == <<width, height, origin, status, image, written, loads, gets, urls>>
gateVars  == <<corner, corners, probe, gateCalls>>
dlVars    == <<tiles, taken, running, monitor, missing_tiles, retryIdx, poolErrors, faulted>>
zoomVars  == <<zlat, zmax, zpc, zzoom, zresult, zlooser>>
shapeVars == <<gi, gdraws, gpc, gshape, gu>>
tileVars  == <<georect, tzoom, tdirection, tpc, cropped, bottomleft, topright, tgrid, subgrid,
               crop, imsize>>
wrapVars  == <<wrect, wpc, wlon, warea, wcolumns, waround>>
retryVars == <<rfn, rinitial, rtries, rdelay, rpc, rlog, rresult>>
vars == <<cfgVars, mainVars, gridVars, gateVars, dlVars, zoomVars, shapeVars, tileVars,
          wrapVars, retryVars>>

----------------------------------------------------------------------------
(* Bounds of the model *)

\* the configured max_tries explored (10 unless configured)
MaxTries == 2
\* largest number of tiles of one grid that are not served by the tile store
MaxNet == 2
\* shuffles explored: flat() rotated by 0..MaxShift and then reversed
MaxShift == 1
\* draw-and-test iterations of random_geopoint explored in one call
MaxDraws == 252
\* number of shapes in the shapefile
NShapes == 2
\* largest quality_check_delta explored
MaxDelta == 2
\* highest zoom at which points are projected
MaxTileZoom == 2
\* resolution of projected coordinates: Unit steps to a tile
Unit == 96
\* largest width and height of the grids handed to has_high_quality_imagery
\* on its own
MaxSide == 2

----------------------------------------------------------------------------
(* Program constants *)

PENDING == 1
CACHED == 2
DOWNLOADING == 3
DOWNLOADED == 4
ERROR == 5

\* the 0.02 of line 810, in percent
RetryPercent == 2

\* the highest zoom level of compute_zoom_level's range(0, 23+1)
MaxZoom == 23

\* the 250 of random_geopoint's while i < 250
IterationLimit == 250

\* quality_check_delta = 2 unless configured
DefaultDelta == 2

Statuses == {PENDING, CACHED, DOWNLOADING, DOWNLOADED, ERROR}

Verbosities == {"quiet", "normal", "deafening"}

Max(a, b) == IF a >= b THEN a ELSE b
Min(a, b) == IF a <= b THEN a ELSE b

----------------------------------------------------------------------------
(* Inputs *)

\* (width, height) of the grids MapTileGrid.from_georect may return here:
\* small grids, a grid of 20 tiles (one tile is 5%), of 50 tiles (one tile is
\* exactly 2%), of 51 tiles (one tile is under 2%) and of 102 tiles (two
\* tiles are under 2%)
GridShapes == {<<1, 1>>, <<2, 1>>, <<1, 2>>, <<5, 4>>, <<10, 5>>, <<17, 3>>, <<17, 6>>}

\* the tile maptiles[0][0] of the grids of a run of main
Origins == {[zoom |-> 4, direction |-> "downward", x |-> 5, y |-> 9,
             status |-> PENDING, image |-> "none"]}

\* what Image.open / image.load find at a tile's filename: no readable file,
\* a file that opens but fails to load, or a complete image
StoreFiles == {"absent", "truncated", "good"}

\* what requests.get and the decoding of its body produce
NetOutcomes == {"connection_error", "status_not_200", "ok", "undecodable", "wrong_format"}

\* the files a load of tile t may find at its filename: the file this run
\* has written, else whatever the tile store holds; the stores explored hold
\* a complete image for every tile after the first MaxNet tiles of flat()
FilesAt(t, hasStore, wr) ==
    IF ~hasStore THEN {"absent"}
    ELSE IF t \in wr \/ t > MaxNet THEN {"good"}
    ELSE StoreFiles

Rot(n, r) == [i \in 1..n |-> ((i - 1 + r) % n) + 1]
Reversed(s) == [i \in 1..Len(s) |-> s[Len(s) + 1 - i]]

\* random.shuffle(tiles): the orders explored
ShuffleOrders(n) == {Reversed(Rot(n, r)) : r \in 0..Min(MaxShift, n - 1)}

----------------------------------------------------------------------------
(* MapTile.load and MapTile.download *)

\* (mutant: status is one attribute shared by every tile)
SetStatus_Shared(st, t, value) == [u \in DOMAIN st |-> value]

\* self.status = value in a method of tile t: the statuses of the tiles after it
SetStatus(st, t, value) == [st EXCEPT ![t] = value]

\* (mutant: load() never takes the image found in the tile store)
CacheHit_Never(hasStore, file) == FALSE

\* load(): the try block reaches self.status = CACHED
CacheHit(hasStore, file) == hasStore /\ file = "good"

\* load(): self.image after the try block
ImageAfterOpen(hasStore, file, img) ==
    IF hasStore /\ file = "good" THEN "ok"
    ELSE IF hasStore /\ file = "truncated" THEN "opened"
    ELSE img

\* download(): Image.open of the body or one of the two asserts raises
Raises(o) == o \in {"undecodable", "wrong_format"}

\* (mutant: a tile whose connection failed is put back to PENDING)
StatusAfterGet_Requeue(o) ==
    IF o = "connection_error" THEN PENDING
    ELSE IF o = "status_not_200" THEN ERROR
    ELSE IF o = "ok" THEN DOWNLOADED
    ELSE DOWNLOADING

\* download(): self.status when download() returns or raises
StatusAfterGet(o) ==
    IF o = "connection_error" THEN ERROR
    ELSE IF o = "status_not_200" THEN ERROR
    ELSE IF o = "ok" THEN DOWNLOADED
    ELSE DOWNLOADING

\* (mutant: download() keeps the image in a local variable)
ImageAfterGet_Local(o, img) == img

\* download(): self.image when download() returns or raises
ImageAfterGet(o, img) ==
    IF o = "ok" THEN "ok"
    ELSE IF o = "wrong_format" THEN "bad"
    ELSE img

\* (mutant: the body is written as soon as a response has arrived)
WritesFile_BeforeChecks(o, hasStore) == o # "connection_error" /\ hasStore

\* download(): the with open(self.filename, 'wb') block is reached
WritesFile(o, hasStore) == o = "ok" /\ hasStore

----------------------------------------------------------------------------
(* MapTile and MapTileGrid as values *)

Directions == {"downward", "northward", "eastward", "southward", "westward"}

\* MapTile.__init__: the fields of a new tile
MapTile(zoom, dir, x, y) ==
    [zoom |-> zoom, direction |-> dir, x |-> x, y |-> y,
     status |-> PENDING, image |-> "none"]

\* the value of origin while there is no grid
NoTile == [zoom |-> 0, direction |-> "none", x |-> 0, y |-> 0,
           status |-> PENDING, image |-> "none"]

\* the fields of a tile that name it: zoom, direction, x and y
Coordinates(tile) ==
    [zoom |-> tile.zoom, direction |-> tile.direction, x |-> tile.x, y |-> tile.y]

\* MapTileGrid.__init__: maptiles is a list of columns, maptiles[x][y] of the
\* code is maptiles[x + 1][y + 1] here
MapTileGrid(maptiles) ==
    [maptiles |-> maptiles, width |-> Len(maptiles), height |-> Len(maptiles[1])]

\* (mutant: negative indices are not wrapped around)
AtIndex_NoWrap(x, size) == IF x < 0 THEN 0 ELSE x

\* at(): x/y < 0 => x/y += width/height
AtIndex(x, size) == IF x < 0 THEN x + size ELSE x

\* at(x, y)
At(grid, x, y) ==
    grid.maptiles[AtIndex(x, grid.width) + 1][AtIndex(y, grid.height) + 1]

\* (mutant: the children of the parent's neighbour at x + 1)
ZoomedX_Shifted(x, fac, i) == (x + 1) * fac + i

\* self.x * fac + x (and self.y * fac + y) in zoomed()
ZoomedX(x, fac, i) == x * fac + i

\* zoomed(zoom_delta)
Zoomed(tile, zoom_delta) ==
    LET zoom == tile.zoom + zoom_delta
        fac == 2^zoom_delta
    IN  MapTileGrid([i \in 1..fac |-> [j \in 1..fac |->
            MapTile(zoom, tile.direction,
                    ZoomedX(tile.x, fac, i - 1), ZoomedX(tile.y, fac, j - 1))]])

----------------------------------------------------------------------------
(* MapTileGrid *)

NTiles == width * height

\* the grid of the run: maptiles[x][y] has the coordinates x and y tiles
\* away from those of maptiles[0][0]
Grid ==
    MapTileGrid([i \in 1..width |-> [j \in 1..height |->
        MapTile(origin.zoom, origin.direction, origin.x + i - 1, origin.y + j - 1)]])

Tiles == 1..NTiles

\* tile t of flat(): maptiles[x][y] for t = x * height + y + 1
FlatTile(t) == At(Grid, (t - 1) \div height, (t - 1) % height)

\* ViewDirection.__init__: self.angle
Angle(dir) ==
    IF dir = "northward" THEN 0
    ELSE IF dir = "eastward" THEN 90
    ELSE IF dir = "southward" THEN 180
    ELSE IF dir = "westward" THEN 270
    ELSE -1

\* (mutant: x and y are substituted for each other)
Url_Transposed(tile) ==
    [angle |-> Angle(tile.direction), x |-> tile.y, y |-> tile.x, zoom |-> tile.zoom]

\* download(): MapTile.tile_url_template.format(...), as the values substituted
Url(tile) ==
    [angle |-> Angle(tile.direction), x |-> tile.x, y |-> tile.y, zoom |-> tile.zoom]

\* the tile at maptiles[x][y] is tile x * height + y + 1 of flat()
ErrorTiles(st) == {t \in DOMAIN st : st[t] = ERROR}

RECURSIVE FlatErrors(_, _, _)
FlatErrors(st, t, n) ==
    IF t > n THEN <<>>
    ELSE (IF st[t] = ERROR THEN <<t>> ELSE <<>>) \o FlatErrors(st, t + 1, n)

\* [maptile for maptile in self.flat() if maptile.status == MapTileStatus.ERROR]
MissingTiles(st) == FlatErrors(st, 1, Len(st))

\* (mutant: the threshold is inclusive, <= 0.02 * len(self.flat()))
ShouldRetry_Inclusive(nMissing, total) ==
    0 < nMissing /\ 100 * nMissing <= RetryPercent * total

\* (mutant: every failure is retried, whatever its share)
ShouldRetry_NoThreshold(nMissing, total) == 0 < nMissing

\* 0 < len(missing_tiles) < 0.02 * len(self.flat())
ShouldRetry(nMissing, total) ==
    0 < nMissing /\ 100 * nMissing < RetryPercent * total

\* threads = max(self.width, self.height)
Threads == Max(width, height)

\* (mutant: the loop only waits for the tiles in PENDING)
AnyUnfinished_PendingOnly(st) == \E t \in DOMAIN st : st[t] = PENDING

\* ProgressIndicator.loop: the condition of the while loop
AnyUnfinished(st) == \E t \in DOMAIN st : st[t] = PENDING \/ st[t] = DOWNLOADING

\* the [x, y] pairs of has_high_quality_imagery's corners list
Corners == <<<<0, 0>>, <<0, -1>>, <<-1, 0>>, <<-1, -1>>>>

\* (mutant: the probes are the grid's own corner tiles)
CornerTiles_OwnCorners(grid, delta) ==
    [k \in 1..Len(Corners) |-> At(grid, Corners[k][1], Corners[k][2])]

\* corners = [self.at(x, y).zoomed(quality_check_delta).at(x, y) ...]
CornerTiles(grid, delta) ==
    [k \in 1..Len(Corners) |->
        LET x == Corners[k][1]
            y == Corners[k][2]
        IN  At(Zoomed(At(grid, x, y), delta), x, y)]

----------------------------------------------------------------------------
(* main *)

\* if tries > max_tries
TooManyRetries(tries, maxTries) == tries > maxTries

\* (mutant: the break for a configured point is missing)
SkipsQualityCheck_NoBreak(isPinned) == FALSE

\* if point is not None: break
SkipsQualityCheck(isPinned) == isPinned

ZoomIdle ==
    /\ zlat = 0 /\ zmax = 0 /\ zpc = "idle" /\ zzoom = 0 /\ zresult = 0
    /\ zlooser = <<>>
ShapeIdle == gi = 0 /\ gdraws = 0 /\ gpc = "idle" /\ gshape = 0 /\ gu = 0

TilesIdle ==
    /\ georect = <<>> /\ tzoom = 0 /\ tdirection = "none" /\ tpc = "idle"
    /\ cropped = <<>> /\ bottomleft = NoTile /\ topright = NoTile
    /\ tgrid = <<>> /\ subgrid = <<>> /\ crop = <<>> /\ imsize = <<>>

WrapIdle ==
    /\ wrect = <<>> /\ wpc = "idle" /\ wlon = 0 /\ warea = 0
    /\ wcolumns = {} /\ waround = <<>>

RetryIdle ==
    /\ rfn = "none" /\ rinitial = 0 /\ rtries = 0 /\ rdelay = 0 /\ rpc = "idle"
    /\ rlog = <<>> /\ rresult = <<>>

NoGrid ==
    /\ width = 0 /\ height = 0 /\ origin = NoTile
    /\ status = <<>> /\ image = <<>> /\ written = {} /\ loads = <<>> /\ gets = <<>>
    /\ urls = <<>>

NoGate == corner = 0 /\ corners = <<>> /\ probe = <<>> /\ gateCalls = 0

NoDownload ==
    /\ tiles = <<>> /\ taken = 0 /\ running = {} /\ monitor = "none"
    /\ missing_tiles = <<>> /\ retryIdx = 0 /\ poolErrors = {} /\ faulted = {}

Init ==
    /\ verbosity \in Verbosities
    /\ pathTemplate \in BOOLEAN
    /\ pinned \in BOOLEAN
    /\ max_tries = MaxTries
    /\ quality_check_delta = DefaultDelta
    /\ pc = "for" /\ iter = 0 /\ rejected = FALSE /\ fatal = "none" /\ named = {}
    /\ NoGrid
    /\ NoGate
    /\ NoDownload
    /\ ZoomIdle /\ ShapeIdle /\ TilesIdle /\ WrapIdle /\ RetryIdle

\* for tries in range(0, max_tries): the next iteration with its first
\* statement, or the end of the loop
ForNext ==
    /\ pc = "for"
    /\ IF iter < max_tries
       THEN /\ iter' = iter + 1
            /\ IF TooManyRetries(iter, max_tries)
               THEN pc' = "fatal" /\ fatal' = "too_many_retries"
               ELSE pc' = "point" /\ fatal' = fatal
       ELSE /\ pc' = "download"
            /\ UNCHANGED <<iter, fatal>>
    /\ corner' = 0 /\ corners' = <<>> /\ probe' = <<>>
    /\ UNCHANGED <<rejected, named, gateCalls>>
    /\ UNCHANGED <<cfgVars, gridVars, dlVars, zoomVars, shapeVars, tileVars, wrapVars, retryVars>>

\* p = shapes.random_geopoint() or GeoPoint(point[0], point[1]), when it returns
MakePoint ==
    /\ pc = "point"
    /\ pc' = "zoom"
    /\ UNCHANGED <<iter, rejected, fatal, named>>
    /\ UNCHANGED <<cfgVars, gridVars, gateVars, dlVars, zoomVars, shapeVars, tileVars, wrapVars, retryVars>>

\* zoom = p.compute_zoom_level(max_meters_per_pixel): returns or raises
ComputeZoom ==
    /\ pc = "zoom"
    /\ \/ pc' = "grid" /\ fatal' = fatal
       \/ pc' = "fatal" /\ fatal' = "zoom_level"
    /\ UNCHANGED <<iter, rejected, named>>
    /\ UNCHANGED <<cfgVars, gridVars, gateVars, dlVars, zoomVars, shapeVars, tileVars, wrapVars, retryVars>>

\* rect = GeoRect.around_geopoint(...); grid = MapTileGrid.from_georect(...)
BuildGrid ==
    /\ pc = "grid"
    /\ \E shape \in GridShapes :
         LET n == shape[1] * shape[2] IN
         /\ pathTemplate \/ n <= MaxNet
         /\ width' = shape[1]
         /\ height' = shape[2]
         /\ origin' \in Origins
         /\ status' = [t \in 1..n |-> PENDING]
         /\ image' = [t \in 1..n |-> "none"]
         /\ written' = {}
         /\ loads' = [t \in 1..n |-> 0]
         /\ gets' = [t \in 1..n |-> 0]
         /\ urls' = [t \in 1..n |-> {}]
    /\ rejected' = FALSE
    /\ pc' = "check"
    /\ UNCHANGED <<iter, fatal, named>>
    /\ UNCHANGED <<cfgVars, gateVars, dlVars, zoomVars, shapeVars, tileVars, wrapVars, retryVars>>

\* if point is not None: break
Break ==
    /\ pc = "check"
    /\ SkipsQualityCheck(pinned)
    /\ pc' = "download"
    /\ UNCHANGED <<iter, rejected, fatal, named>>
    /\ UNCHANGED <<cfgVars, gridVars, gateVars, dlVars, zoomVars, shapeVars, tileVars, wrapVars, retryVars>>

\* grid.has_high_quality_imagery(quality_check_delta): the corners list
GateCall ==
    /\ pc = "check"
    /\ ~SkipsQualityCheck(pinned)
    /\ pc' = "gate"
    /\ corner' = 1
    /\ LET new == CornerTiles(Grid, quality_check_delta) IN
         /\ corners' = [c \in 1..Len(Corners) |-> Coordinates(new[c])]
         /\ probe' = [c \in 1..Len(Corners) |-> new[c].status]
    /\ gateCalls' = gateCalls + 1
    /\ UNCHANGED <<iter, rejected, fatal, named>>
    /\ UNCHANGED <<cfgVars, gridVars, dlVars, zoomVars, shapeVars, tileVars, wrapVars, retryVars>>

\* has_high_quality_imagery after c.load(): the status test, the end of the
\* for loop, the return and main's if / else on the result
\* (corners is a local of has_high_quality_imagery: the next statement of
\* main that changes state finds it gone)
AfterProbe(c, st) ==
    /\ probe' = SetStatus(probe, c, st)
    /\ IF st = ERROR
       THEN pc' = "for" /\ rejected' = TRUE /\ corner' = c
       ELSE IF c = Len(Corners)
       THEN pc' = "download" /\ rejected' = FALSE /\ corner' = c
       ELSE pc' = "gate" /\ rejected' = rejected /\ corner' = c + 1

\* c.load() up to the cache hit or the request
ProbeLoad ==
    /\ pc = "gate"
    /\ \E file \in (IF pathTemplate THEN StoreFiles ELSE {"absent"}) :
         IF CacheHit(pathTemplate, file)
         THEN AfterProbe(corner, CACHED)
         ELSE /\ probe' = SetStatus(probe, corner, DOWNLOADING)
              /\ pc' = "gate_get"
              /\ UNCHANGED <<rejected, corner>>
    /\ UNCHANGED <<iter, fatal, named, gateCalls, corners>>
    /\ UNCHANGED <<cfgVars, gridVars, dlVars, zoomVars, shapeVars, tileVars, wrapVars, retryVars>>

\* c.load(): the response of the request, on the calling thread
ProbeGet ==
    /\ pc = "gate_get"
    /\ \E o \in NetOutcomes :
         IF Raises(o)
         THEN /\ pc' = "fatal" /\ fatal' = "hard_fault"
              /\ probe' = SetStatus(probe, corner, StatusAfterGet(o))
              /\ UNCHANGED <<rejected, corner>>
         ELSE /\ AfterProbe(corner, StatusAfterGet(o))
              /\ fatal' = fatal
    /\ UNCHANGED <<iter, named, gateCalls, corners>>
    /\ UNCHANGED <<cfgVars, gridVars, dlVars, zoomVars, shapeVars, tileVars, wrapVars, retryVars>>

----------------------------------------------------------------------------
(* MapTileGrid.download *)

\* prog_thread.start(); tiles = self.flat(); random.shuffle(tiles); the
\* executor is created and every tile's load is submitted to it
DownloadStart ==
    /\ pc = "download"
    /\ pc' = "pool"
    /\ monitor' = "run"
    /\ tiles' \in ShuffleOrders(NTiles)
    /\ taken' = 0
    /\ running' = {}
    /\ corner' = 0 /\ corners' = <<>> /\ probe' = <<>>
    /\ UNCHANGED <<missing_tiles, retryIdx, poolErrors, faulted>>
    /\ UNCHANGED <<iter, rejected, fatal, named, gateCalls>>
    /\ UNCHANGED <<cfgVars, gridVars, zoomVars, shapeVars, tileVars, wrapVars, retryVars>>

\* a pool worker takes the next submitted task and runs maptile.load() up to
\* the cache hit or the request
WorkerLoad ==
    /\ pc = "pool"
    /\ taken < Len(tiles)
    /\ Cardinality(running) < Threads
    /\ LET t == tiles[taken + 1] IN
       \E file \in FilesAt(t, pathTemplate, written) :
         /\ taken' = taken + 1
         /\ loads' = [loads EXCEPT ![t] = @ + 1]
         /\ image' = [image EXCEPT ![t] = ImageAfterOpen(pathTemplate, file, @)]
         /\ IF CacheHit(pathTemplate, file)
            THEN /\ status' = SetStatus(status, t, CACHED)
                 /\ UNCHANGED <<gets, urls, running>>
            ELSE /\ status' = SetStatus(status, t, DOWNLOADING)
                 /\ gets' = [gets EXCEPT ![t] = @ + 1]
                 /\ urls' = [urls EXCEPT ![t] = @ \cup {Url(FlatTile(t))}]
                 /\ running' = running \cup {t}
    /\ UNCHANGED <<width, height, origin, written>>
    /\ UNCHANGED <<tiles, monitor, missing_tiles, retryIdx, poolErrors, faulted>>
    /\ UNCHANGED <<cfgVars, mainVars, gateVars, zoomVars, shapeVars, tileVars, wrapVars, retryVars>>

\* a pool worker's maptile.download() gets its response; an exception ends the
\* task and is kept in its future, which nothing reads
WorkerGet ==
    /\ pc = "pool"
    /\ \E t \in running : \E o \in NetOutcomes :
         /\ status' = SetStatus(status, t, StatusAfterGet(o))
         /\ image' = [image EXCEPT ![t] = ImageAfterGet(o, @)]
         /\ written' = IF WritesFile(o, pathTemplate) THEN written \cup {t} ELSE written
         /\ faulted' = IF Raises(o) THEN faulted \cup {t} ELSE faulted
         /\ running' = running \ {t}
    /\ UNCHANGED <<width, height, origin, loads, gets, urls>>
    /\ UNCHANGED <<tiles, taken, monitor, missing_tiles, retryIdx, poolErrors>>
    /\ UNCHANGED <<cfgVars, mainVars, gateVars, zoomVars, shapeVars, tileVars, wrapVars, retryVars>>

\* the with block ends once every task has ended; missing_tiles is computed
\* and the retry pass is entered or skipped
PoolDrained ==
    /\ pc = "pool"
    /\ taken = Len(tiles)
    /\ running = {}
    /\ missing_tiles' = MissingTiles(status)
    /\ poolErrors' = ErrorTiles(status)
    /\ IF ShouldRetry(Len(MissingTiles(status)), NTiles)
       THEN pc' = "retry" /\ retryIdx' = 1
       ELSE pc' = "join" /\ retryIdx' = retryIdx
    /\ UNCHANGED <<tiles, taken, running, monitor, faulted>>
    /\ UNCHANGED <<iter, rejected, fatal, named>>
    /\ UNCHANGED <<cfgVars, gridVars, gateVars, zoomVars, shapeVars, tileVars, wrapVars, retryVars>>

\* for maptile in missing_tiles: the end of one maptile.load()
AfterRetry ==
    IF retryIdx = Len(missing_tiles)
    THEN pc' = "join" /\ retryIdx' = retryIdx
    ELSE pc' = "retry" /\ retryIdx' = retryIdx + 1

\* the retry pass: maptile.load() up to the cache hit or the request
RetryLoad ==
    /\ pc = "retry"
    /\ LET t == missing_tiles[retryIdx] IN
       \E file \in FilesAt(t, pathTemplate, written) :
         /\ loads' = [loads EXCEPT ![t] = @ + 1]
         /\ image' = [image EXCEPT ![t] = ImageAfterOpen(pathTemplate, file, @)]
         /\ IF CacheHit(pathTemplate, file)
            THEN /\ status' = SetStatus(status, t, CACHED)
                 /\ gets' = gets /\ urls' = urls
                 /\ AfterRetry
            ELSE /\ status' = SetStatus(status, t, DOWNLOADING)
                 /\ gets' = [gets EXCEPT ![t] = @ + 1]
                 /\ urls' = [urls EXCEPT ![t] = @ \cup {Url(FlatTile(t))}]
                 /\ pc' = "retry_get"
                 /\ retryIdx' = retryIdx
    /\ UNCHANGED <<width, height, origin, written>>
    /\ UNCHANGED <<tiles, taken, running, monitor, missing_tiles, poolErrors, faulted>>
    /\ UNCHANGED <<iter, rejected, fatal, named>>
    /\ UNCHANGED <<cfgVars, gateVars, zoomVars, shapeVars, tileVars, wrapVars, retryVars>>

\* the retry pass: the response of the request, on the calling thread
RetryGet ==
    /\ pc = "retry_get"
    /\ LET t == missing_tiles[retryIdx] IN
       \E o \in NetOutcomes :
         /\ status' = SetStatus(status, t, StatusAfterGet(o))
         /\ image' = [image EXCEPT ![t] = ImageAfterGet(o, @)]
         /\ written' = IF WritesFile(o, pathTemplate) THEN written \cup {t} ELSE written
         /\ IF Raises(o)
            THEN /\ pc' = "fatal" /\ fatal' = "hard_fault"
                 /\ faulted' = faulted \cup {t}
                 /\ retryIdx' = retryIdx
            ELSE /\ AfterRetry
                 /\ UNCHANGED <<fatal, faulted>>
    /\ UNCHANGED <<width, height, origin, loads, gets, urls>>
    /\ UNCHANGED <<tiles, taken, running, monitor, missing_tiles, poolErrors>>
    /\ UNCHANGED <<iter, rejected, named>>
    /\ UNCHANGED <<cfgVars, gateVars, zoomVars, shapeVars, tileVars, wrapVars, retryVars>>

\* ProgressIndicator.loop: one evaluation of the quiet test or of the while
\* condition; update() and time.sleep(0.1) change no state
MonitorPoll ==
    /\ monitor = "run"
    /\ monitor' = IF verbosity = "quiet" THEN "exited"
                  ELSE IF AnyUnfinished(status) THEN "run"
                  ELSE "exited"
    /\ UNCHANGED <<tiles, taken, running, missing_tiles, retryIdx, poolErrors, faulted>>
    /\ UNCHANGED <<cfgVars, mainVars, gridVars, gateVars, zoomVars, shapeVars, tileVars, wrapVars, retryVars>>

\* (mutant: the list computed before the retry pass is checked again)
FinalMissingTiles_Stale == missing_tiles

\* missing_tiles of line 821, computed anew after the retry pass
FinalMissingTiles == MissingTiles(status)

\* prog_thread.join() returns; prog.cleanup(); the final check of missing tiles
Join ==
    /\ pc = "join"
    /\ monitor = "exited"
    /\ IF FinalMissingTiles # <<>>
       THEN /\ pc' = "fatal" /\ fatal' = "missing_tiles"
            /\ named' = {FinalMissingTiles[i] : i \in 1..Len(FinalMissingTiles)}
       ELSE /\ pc' = "stitch"
            /\ UNCHANGED <<fatal, named>>
    /\ UNCHANGED <<iter, rejected>>
    /\ UNCHANGED <<cfgVars, gridVars, gateVars, dlVars, zoomVars, shapeVars, tileVars, wrapVars, retryVars>>

\* grid.stitch() pastes every tile's image; the later steps of main follow
Stitch ==
    /\ pc = "stitch"
    /\ pc' = "done"
    /\ UNCHANGED <<iter, rejected, fatal, named>>
    /\ UNCHANGED <<cfgVars, gridVars, gateVars, dlVars, zoomVars, shapeVars, tileVars, wrapVars, retryVars>>

Next ==
    \/ ForNext
    \/ MakePoint
    \/ ComputeZoom
    \/ BuildGrid
    \/ Break
    \/ GateCall
    \/ ProbeLoad
    \/ ProbeGet
    \/ DownloadStart
    \/ WorkerLoad
    \/ WorkerGet
    \/ PoolDrained
    \/ RetryLoad
    \/ RetryGet
    \/ MonitorPoll
    \/ Join
    \/ Stitch

Spec == Init /\ [][Next]_vars

\* the steps of the main thread
MainNext ==
    \/ ForNext \/ MakePoint \/ ComputeZoom \/ BuildGrid \/ Break \/ GateCall
    \/ ProbeLoad \/ ProbeGet \/ DownloadStart \/ PoolDrained \/ RetryLoad
    \/ RetryGet \/ Join \/ Stitch

\* Spec with every thread scheduled again and again: the main thread, the
\* pool's workers and the progress monitor's thread each take a step that has
\* stayed possible (every request and every disk operation returns)
FairSpec ==
    /\ Spec
    /\ WF_vars(MainNext)
    /\ WF_vars(WorkerLoad \/ WorkerGet)
    /\ WF_vars(MonitorPoll)

----------------------------------------------------------------------------
(* GeoPoint.compute_zoom_level                                             *)
(*                                                                         *)
(* Lengths are integers in units of (EARTH_CIRCUMFERENCE / TILE_SIZE) /    *)
(* 2^(MaxZoom + 2) metres, about 4.7 mm: meters_per_pixel_at_zoom_0 is     *)
(* 2^(MaxZoom + 2) units at the equator, and dividing it by 2 ** zoom is   *)
(* exact for the latitudes explored, as it is in floating point.           *)

MainIdle ==
    /\ verbosity = "quiet" /\ pathTemplate = FALSE /\ pinned = FALSE
    /\ max_tries = MaxTries
    /\ quality_check_delta = DefaultDelta
    /\ pc = "idle" /\ iter = 0 /\ rejected = FALSE /\ fatal = "none" /\ named = {}
    /\ NoGrid
    /\ NoGate
    /\ NoDownload

\* self.lat, in degrees
Latitudes == {-90, -60, 0, 60, 90}

\* 4 * math.cos(math.radians(lat)); at the poles the float is 6.1e-17, far
\* below one unit
Cos4(lat) == IF lat = 0 THEN 4 ELSE IF lat \in {-60, 60} THEN 2 ELSE 0

\* max_meters_per_pixel: values at, just below and just above the
\* meters per pixel of several zoom levels, and very strict ones
Constraints ==
    {1} \cup {2^k + d : k \in {1, 2, 3, 12, 13, 23, 24, 25, 26}, d \in {-1, 0, 1}}

\* meters_per_pixel_at_zoom_0
MetersPerPixelAtZoom0(lat) == Cos4(lat) * 2^MaxZoom

\* meters_per_pixel = meters_per_pixel_at_zoom_0 / (2 ** zoom)
MetersPerPixel(lat, zoom) == MetersPerPixelAtZoom0(lat) \div 2^zoom

\* (mutant: the zoom levels are counted from the other end)
ReturnedZoom_Inverted(zoom) == MaxZoom - zoom

\* if meters_per_pixel > max_meters_per_pixel: return zoom + 1
ReturnedZoom(zoom) == zoom + 1

\* the result of compute_zoom_level that stands for the RuntimeError
Raised == -1

\* the for loop of compute_zoom_level from zoom downwards and its else
RECURSIVE ZoomLoop(_, _, _)
ZoomLoop(lat, max_meters_per_pixel, zoom) ==
    IF zoom < 0 THEN Raised
    ELSE IF MetersPerPixel(lat, zoom) > max_meters_per_pixel THEN ReturnedZoom(zoom)
    ELSE ZoomLoop(lat, max_meters_per_pixel, zoom - 1)

\* compute_zoom_level(max_meters_per_pixel) for a point of latitude lat
ComputeZoomLevel(lat, max_meters_per_pixel) == ZoomLoop(lat, max_meters_per_pixel, MaxZoom)

InitZoom ==
    /\ MainIdle /\ ShapeIdle /\ TilesIdle /\ WrapIdle /\ RetryIdle
    /\ zlat \in Latitudes
    /\ zmax \in Constraints
    /\ zpc = "for"
    /\ zzoom = MaxZoom
    /\ zresult = -1
    /\ zlooser = <<>>

\* one iteration of for zoom in reversed(range(0, 23+1))
ZoomStep ==
    /\ zpc = "for"
    /\ zzoom >= 0
    /\ IF MetersPerPixel(zlat, zzoom) > zmax
       THEN zpc' = "returned" /\ zresult' = ReturnedZoom(zzoom) /\ zzoom' = zzoom
       ELSE zpc' = "for" /\ zresult' = zresult /\ zzoom' = zzoom - 1
    /\ UNCHANGED <<zlat, zmax, zlooser>>
    /\ UNCHANGED <<cfgVars, mainVars, gridVars, gateVars, dlVars, shapeVars, tileVars, wrapVars, retryVars>>

\* the else of the for loop: raise RuntimeError
ZoomExhausted ==
    /\ zpc = "for"
    /\ zzoom < 0
    /\ zpc' = "raised"
    /\ UNCHANGED <<zlat, zmax, zzoom, zresult, zlooser>>
    /\ UNCHANGED <<cfgVars, mainVars, gridVars, gateVars, dlVars, shapeVars, tileVars, wrapVars, retryVars>>

\* main hands the returned zoom to MapTileGrid.from_georect, which builds
\* every MapTile of the grid with it
ZoomGrid ==
    /\ zpc = "returned"
    /\ zpc' = "grid"
    /\ UNCHANGED <<zlat, zmax, zzoom, zresult, zlooser>>
    /\ UNCHANGED <<cfgVars, mainVars, gridVars, gateVars, dlVars, shapeVars, tileVars, wrapVars, retryVars>>

NextZoom == ZoomStep \/ ZoomExhausted \/ ZoomGrid

SpecZoom == InitZoom /\ [][NextZoom]_vars

\* two calls of compute_zoom_level for one point, the second with a
\* constraint that is not smaller
InitZoomPair ==
    /\ MainIdle /\ ShapeIdle /\ TilesIdle /\ WrapIdle /\ RetryIdle
    /\ zlat \in Latitudes
    /\ zmax \in Constraints
    /\ \E m \in Constraints : m >= zmax /\ zlooser = [max |-> m, result |-> Raised]
    /\ zpc = "first"
    /\ zzoom = MaxZoom
    /\ zresult = Raised

ZoomFirst ==
    /\ zpc = "first"
    /\ zresult' = ComputeZoomLevel(zlat, zmax)
    /\ zpc' = "second"
    /\ UNCHANGED <<zlat, zmax, zzoom, zlooser>>
    /\ UNCHANGED <<cfgVars, mainVars, gridVars, gateVars, dlVars, shapeVars, tileVars, wrapVars, retryVars>>

ZoomSecond ==
    /\ zpc = "second"
    /\ zlooser' = [zlooser EXCEPT !.result = ComputeZoomLevel(zlat, zlooser.max)]
    /\ zpc' = "compared"
    /\ UNCHANGED <<zlat, zmax, zzoom, zresult>>
    /\ UNCHANGED <<cfgVars, mainVars, gridVars, gateVars, dlVars, shapeVars, tileVars, wrapVars, retryVars>>

NextZoomPair == ZoomFirst \/ ZoomSecond

SpecZoomPair == InitZoomPair /\ [][NextZoomPair]_vars

----------------------------------------------------------------------------
(* GeoShape.random_geopoint                                                *)

\* shape["area"] of the shapes explored
Areas == [s \in 1..NShapes |-> s]

RECURSIVE AreaPrefixSum(_)
AreaPrefixSum(s) == IF s = 0 THEN 0 ELSE AreaPrefixSum(s - 1) + Areas[s]

\* total = sum([shape["area"] for shape in self.shapes_data])
TotalArea == AreaPrefixSum(NShapes)

\* the scan of shapes_data for area_relative_prefix_sum = u / TotalArea:
\* the first shape whose area_relative_prefix_sum exceeds it
PickShape(u) ==
    CHOOSE s \in 1..NShapes :
        /\ u < AreaPrefixSum(s)
        /\ \A r \in 1..(s - 1) : ~(u < AreaPrefixSum(r))

\* the value of i at the end of one iteration of the while loop
NextI(i) == i

InitShape ==
    /\ MainIdle /\ ZoomIdle /\ TilesIdle /\ WrapIdle /\ RetryIdle
    /\ gi = 0 /\ gdraws = 0 /\ gpc = "while" /\ gshape = 0 /\ gu = 0

\* while i < 250, and the raise after the loop
ShapeWhile ==
    /\ gpc = "while"
    /\ gpc' = IF gi < IterationLimit THEN "pick" ELSE "raised"
    /\ UNCHANGED <<gi, gdraws, gshape, gu>>
    /\ UNCHANGED <<cfgVars, mainVars, gridVars, gateVars, dlVars, zoomVars, tileVars, wrapVars, retryVars>>

\* area_relative_prefix_sum = random.random() and the scan for the shape
ShapePick ==
    /\ gpc = "pick"
    /\ gdraws < MaxDraws
    /\ \E u \in 0..(TotalArea - 1) :
         /\ gu' = u
         /\ gshape' = PickShape(u)
    /\ gpc' = "test"
    /\ UNCHANGED <<gi, gdraws>>
    /\ UNCHANGED <<cfgVars, mainVars, gridVars, gateVars, dlVars, zoomVars, tileVars, wrapVars, retryVars>>

\* geopoint = GeoPoint.random(shape["bounds"]) and polygon.contains(point)
ShapeTest ==
    /\ gpc = "test"
    /\ gdraws' = gdraws + 1
    /\ \E contains \in BOOLEAN :
         IF contains
         THEN gpc' = "returned" /\ gi' = gi
         ELSE gpc' = "while" /\ gi' = NextI(gi)
    /\ UNCHANGED <<gshape, gu>>
    /\ UNCHANGED <<cfgVars, mainVars, gridVars, gateVars, dlVars, zoomVars, tileVars, wrapVars, retryVars>>

NextShape == ShapeWhile \/ ShapePick \/ ShapeTest

SpecShape == InitShape /\ [][NextShape]_vars

----------------------------------------------------------------------------
(* MapTileGrid.has_high_quality_imagery on its own *)

\* the tile maptiles[0][0] of the grids explored
GateOrigins ==
    {MapTile(z, d, x, y) : z \in {3, 4}, d \in {"downward", "westward"},
                           x \in {0, 5}, y \in {1}}

\* main has built a grid for a random point and is about to call
\* has_high_quality_imagery
InitGate ==
    /\ verbosity = "quiet"
    /\ pathTemplate \in BOOLEAN
    /\ pinned = FALSE
    /\ max_tries = MaxTries
    /\ quality_check_delta \in 0..MaxDelta
    /\ pc = "check" /\ iter = 1 /\ rejected = FALSE /\ fatal = "none" /\ named = {}
    /\ width \in 1..MaxSide
    /\ height \in 1..MaxSide
    /\ origin \in GateOrigins
    /\ status = [t \in 1..(width * height) |-> PENDING]
    /\ image = [t \in 1..(width * height) |-> "none"]
    /\ written = {}
    /\ loads = [t \in 1..(width * height) |-> 0]
    /\ gets = [t \in 1..(width * height) |-> 0]
    /\ urls = [t \in 1..(width * height) |-> {}]
    /\ NoGate
    /\ NoDownload
    /\ ZoomIdle /\ ShapeIdle /\ TilesIdle /\ WrapIdle /\ RetryIdle

NextGate == GateCall \/ ProbeLoad \/ ProbeGet

SpecGate == InitGate /\ [][NextGate]_vars

----------------------------------------------------------------------------
(* MapTileGrid.download on grids with more tiles than pool workers         *)

\* (width, height) of grids whose tiles outnumber max(width, height)
PoolShapes == {<<2, 2>>, <<3, 2>>, <<2, 3>>}

\* main has left its loop with a grid and no tile store and is about to call
\* grid.download()
InitPool ==
    /\ verbosity \in Verbosities
    /\ pathTemplate = FALSE
    /\ pinned = FALSE
    /\ max_tries = MaxTries
    /\ quality_check_delta = DefaultDelta
    /\ pc = "download" /\ iter = 1 /\ rejected = FALSE /\ fatal = "none" /\ named = {}
    /\ \E shape \in PoolShapes : width = shape[1] /\ height = shape[2]
    /\ origin \in Origins
    /\ status = [t \in 1..(width * height) |-> PENDING]
    /\ image = [t \in 1..(width * height) |-> "none"]
    /\ written = {}
    /\ loads = [t \in 1..(width * height) |-> 0]
    /\ gets = [t \in 1..(width * height) |-> 0]
    /\ urls = [t \in 1..(width * height) |-> {}]
    /\ NoGate
    /\ NoDownload
    /\ ZoomIdle /\ ShapeIdle /\ TilesIdle /\ WrapIdle /\ RetryIdle

NextPool ==
    \/ DownloadStart \/ WorkerLoad \/ WorkerGet \/ PoolDrained \/ MonitorPoll
    \/ Join \/ Stitch

SpecPool == InitPool /\ [][NextPool]_vars

----------------------------------------------------------------------------
(* WebMercator.project, ObliqueWebMercator.project, GeoPoint.to_maptile,   *)
(* MapTileGrid.from_georect, MapTile.zoomed and MapTileImage.crop          *)
(*                                                                         *)
(* Projected coordinates are fixed-point numbers: integers in units of     *)
(* 1 / Unit of a tile. A GeoPoint is given by the two numbers its latitude *)
(* and longitude contribute to the projection, in units of 1 / Unit of the *)
(* world's width:                                                          *)
(*   wx = (math.radians(lon) + math.pi) / (2 * math.pi)                    *)
(*   wy = (math.pi - math.log(math.tan(math.pi / 4 +                       *)
(*                                 math.radians(lat) / 2))) / (2 * math.pi)*)
(* so wx grows with the longitude and wy falls as the latitude grows.      *)

\* wx of the points explored
PointXs == {0, 13, 32, 50}

\* wy of the points explored; Unit \div 2 is the equator
PointYs == {5, Unit \div 2, 41, 60}

GeoPoints == {[wx |-> a, wy |-> b] : a \in PointXs, b \in PointYs}

\* GeoRect.__init__: assert sw.lat <= ne.lat
GeoRects == {r \in [sw : GeoPoints, ne : GeoPoints] : r.sw.wy >= r.ne.wy}

\* the largest q with q <= d / math.sqrt(2), for d >= 0
RECURSIVE FloorDivSqrt2(_, _)
FloorDivSqrt2(d, q) ==
    IF 2 * (q + 1) * (q + 1) <= d * d THEN FloorDivSqrt2(d, q + 1) ELSE q

\* (mutant: no foreshortening)
DivSqrt2_Identity(d) == d

\* d / math.sqrt(2): the division is odd in d
DivSqrt2(d) == IF d >= 0 THEN FloorDivSqrt2(d, 0) ELSE 0 - FloorDivSqrt2(0 - d, 0)

\* WebMercator.project(geopoint, zoom): factor * (...), nothing is floored
WebMercatorProject(geopoint, zoom) == <<geopoint.wx * 2^zoom, geopoint.wy * 2^zoom>>

\* ObliqueWebMercator.project(geopoint, zoom, direction); the ValueError of
\* the else branch is the result <<>>
ObliqueWebMercatorProject(geopoint, zoom, dir) ==
    LET p0 == WebMercatorProject(geopoint, zoom)
        x0 == p0[1]
        y0 == p0[2]
        width_and_height_of_world_in_tiles == 2^zoom * Unit
        equator_offset_from_edges == width_and_height_of_world_in_tiles \div 2
        x == IF dir = "northward" THEN x0
             ELSE IF dir = "eastward" THEN y0
             ELSE IF dir = "southward" THEN width_and_height_of_world_in_tiles - x0
             ELSE width_and_height_of_world_in_tiles - y0
        y == IF dir = "northward" THEN y0
             ELSE IF dir = "eastward" THEN width_and_height_of_world_in_tiles - x0
             ELSE IF dir = "southward" THEN width_and_height_of_world_in_tiles - y0
             ELSE x0
    IN  IF dir \notin {"northward", "eastward", "southward", "westward"} THEN <<>>
        ELSE <<x, DivSqrt2(y - equator_offset_from_edges) + equator_offset_from_edges>>

\* direction.is_oblique()
IsOblique(dir) == dir # "downward"

\* (mutant: to_maptile always projects with WebMercator.project)
TileProjection_Standard(geopoint, zoom, dir) == WebMercatorProject(geopoint, zoom)

\* to_maptile(): x, y before they are floored
TileProjection(geopoint, zoom, dir) ==
    IF IsOblique(dir) THEN ObliqueWebMercatorProject(geopoint, zoom, dir)
    ELSE WebMercatorProject(geopoint, zoom)

\* math.floor(x) of a fixed-point x
Floor(x) == x \div Unit

\* to_maptile(zoom, direction)
ToMaptile(geopoint, zoom, dir) ==
    LET p == TileProjection(geopoint, zoom, dir)
    IN  MapTile(zoom, dir, Floor(p[1]), Floor(p[2]))

\* crop(): left, bottom (or right, top) for one corner of the georect
CropProjection(geopoint, zoom, dir) ==
    IF IsOblique(dir) THEN ObliqueWebMercatorProject(geopoint, zoom, dir)
    ELSE WebMercatorProject(geopoint, zoom)

\* from_georect(): if bottomleft.x > topright.x
SwapsX(bl, tr) == bl.x > tr.x

\* (mutant: the y coordinates are never swapped)
SwapsY_Never(bl, tr) == FALSE

\* from_georect(): if bottomleft.y < topright.y
SwapsY(bl, tr) == bl.y < tr.y

\* from_georect(): bottomleft and topright after the two swaps, which assign
\* to the x and y of the two tiles
Swapped(bl, tr) ==
    [bottomleft |-> [bl EXCEPT !.x = IF SwapsX(bl, tr) THEN tr.x ELSE bl.x,
                               !.y = IF SwapsY(bl, tr) THEN tr.y ELSE bl.y],
     topright   |-> [tr EXCEPT !.x = IF SwapsX(bl, tr) THEN bl.x ELSE tr.x,
                               !.y = IF SwapsY(bl, tr) THEN bl.y ELSE tr.y]]

\* from_georect(): the nested loops over range(bottomleft.x, topright.x + 1)
\* and range(topright.y, bottomleft.y + 1) after the swaps
FromGeorect(bl, tr, zoom, dir) ==
    LET s == Swapped(bl, tr)
    IN  MapTileGrid([i \in 1..(s.topright.x + 1 - s.bottomleft.x) |->
                     [j \in 1..(s.bottomleft.y + 1 - s.topright.y) |->
            MapTile(zoom, dir, s.bottomleft.x + i - 1, s.topright.y + j - 1)]])

InitTiles ==
    /\ MainIdle /\ ZoomIdle /\ ShapeIdle /\ WrapIdle /\ RetryIdle
    /\ georect \in GeoRects
    /\ tzoom \in 0..MaxTileZoom
    /\ tdirection \in Directions
    /\ tpc = "project"
    /\ cropped = <<>> /\ bottomleft = NoTile /\ topright = NoTile
    /\ tgrid = <<>> /\ subgrid = <<>> /\ crop = <<>> /\ imsize = <<>>

\* crop(): the projections of georect.sw and georect.ne
CropProject ==
    /\ tpc = "project"
    /\ cropped' = [sw |-> CropProjection(georect.sw, tzoom, tdirection),
                   ne |-> CropProjection(georect.ne, tzoom, tdirection)]
    /\ tpc' = "to_maptile"
    /\ UNCHANGED <<georect, tzoom, tdirection, bottomleft, topright, tgrid, subgrid, crop, imsize>>
    /\ UNCHANGED <<cfgVars, mainVars, gridVars, gateVars, dlVars, zoomVars, shapeVars,
                 wrapVars, retryVars>>

\* from_georect(): bottomleft and topright
CornersToMaptile ==
    /\ tpc = "to_maptile"
    /\ bottomleft' = ToMaptile(georect.sw, tzoom, tdirection)
    /\ topright' = ToMaptile(georect.ne, tzoom, tdirection)
    /\ tpc' = "from_georect"
    /\ UNCHANGED <<georect, tzoom, tdirection, cropped, tgrid, subgrid, crop, imsize>>
    /\ UNCHANGED <<cfgVars, mainVars, gridVars, gateVars, dlVars, zoomVars, shapeVars,
                 wrapVars, retryVars>>

\* from_georect(): the swaps, the loops and the return
BuildFromGeorect ==
    /\ tpc = "from_georect"
    /\ tgrid' = FromGeorect(bottomleft, topright, tzoom, tdirection)
    /\ bottomleft' = Swapped(bottomleft, topright).bottomleft
    /\ topright' = Swapped(bottomleft, topright).topright
    /\ tpc' = "zoomed"
    /\ UNCHANGED <<georect, tzoom, tdirection, cropped, subgrid, crop, imsize>>
    /\ UNCHANGED <<cfgVars, mainVars, gridVars, gateVars, dlVars, zoomVars, shapeVars,
                 wrapVars, retryVars>>

\* a call of zoomed(zoom_delta) on the tile bottomleft
ZoomTile ==
    /\ tpc = "zoomed"
    /\ \E zoom_delta \in 0..MaxDelta :
         subgrid' = [zoom_delta |-> zoom_delta, self |-> bottomleft,
                     grid |-> Zoomed(bottomleft, zoom_delta)]
    /\ tpc' = "done"
    /\ UNCHANGED <<georect, tzoom, tdirection, cropped, bottomleft, topright, tgrid, crop, imsize>>
    /\ UNCHANGED <<cfgVars, mainVars, gridVars, gateVars, dlVars, zoomVars, shapeVars,
                 wrapVars, retryVars>>

\* TILE_SIZE
TILE_SIZE == 256

\* round(n / d) for n >= 0 and d > 0: halves go to the even neighbour
Round(n, d) ==
    LET q == n \div d
        r == n % d
    IN  IF 2 * r < d THEN q
        ELSE IF 2 * r > d THEN q + 1
        ELSE IF q % 2 = 0 THEN q ELSE q + 1

\* (mutant: left, right, bottom and top are taken as projected)
CropBox_Unswapped(sw, ne) ==
    [left |-> sw[1], bottom |-> sw[2], right |-> ne[1], top |-> ne[2]]

\* crop(): left, bottom, right and top after the two swaps
CropBox(sw, ne) ==
    [left   |-> IF sw[1] > ne[1] THEN ne[1] ELSE sw[1],
     right  |-> IF sw[1] > ne[1] THEN sw[1] ELSE ne[1],
     bottom |-> IF sw[2] < ne[2] THEN ne[2] ELSE sw[2],
     top    |-> IF sw[2] < ne[2] THEN sw[2] ELSE ne[2]]

\* crop(): (left_crop, top_crop, right_crop, bottom_crop)
CropInsets(box) ==
    <<Round(TILE_SIZE * (box.left % Unit), Unit),
      Round(TILE_SIZE * (box.top % Unit), Unit),
      Round(TILE_SIZE * (Unit - (box.right % Unit)), Unit),
      Round(TILE_SIZE * (Unit - (box.bottom % Unit)), Unit)>>

\* stitch(): the size of the image it creates
StitchedSize(grid) == <<grid.width * TILE_SIZE, grid.height * TILE_SIZE>>

\* ImageOps.crop(image, border): the size of the image returned
CroppedSize(sz, border) ==
    <<sz[1] - border[1] - border[3], sz[2] - border[2] - border[4]>>

\* grid.stitch() and MapTileImage(grid.image).crop(zoom, direction, georect)
StitchAndCrop ==
    /\ tpc = "done"
    /\ crop' = CropInsets(CropBox(cropped.sw, cropped.ne))
    /\ imsize' = CroppedSize(StitchedSize(tgrid), crop')
    /\ tpc' = "cropped"
    /\ UNCHANGED <<georect, tzoom, tdirection, cropped, bottomleft, topright, tgrid, subgrid>>
    /\ UNCHANGED <<cfgVars, mainVars, gridVars, gateVars, dlVars, zoomVars, shapeVars,
                 wrapVars, retryVars>>

NextTiles ==
    \/ CropProject \/ CornersToMaptile \/ BuildFromGeorect \/ ZoomTile
    \/ StitchAndCrop

SpecTiles == InitTiles /\ [][NextTiles]_vars

----------------------------------------------------------------------------
(* GeoRects whose longitude span crosses the antimeridian: GeoPoint.random, *)
(* GeoRect.area, MapTileGrid.from_georect and GeoRect.around_geopoint.      *)
(* Latitudes and longitudes are whole degrees.                              *)

\* random.random() is drawn from the multiples of 1 / RandomSteps in [0, 1)
RandomSteps == 4

\* zoom of the grids built
WrapZoom == 2

WrapLats == {-30, 0, 30}
WrapLons == {-180, -135, 0, 135, 180}

\* half of width_geo and of height_geo in around_geopoint, in degrees
HalfWidths == {10, 60}
HalfHeights == {5}

\* 1000 * math.sin(math.radians(lat))
SinMilli(lat) == IF lat = 30 THEN 500 ELSE IF lat = -30 THEN 0 - 500 ELSE 0

\* 1000 * the y of WebMercator.project at zoom 0
MercatorMilli(lat) == IF lat = 30 THEN 413 ELSE IF lat = -30 THEN 587 ELSE 500

\* GeoPoint.__init__: the assert
ValidGeoPoint(lat, lon) == -90 <= lat /\ lat <= 90 /\ -180 <= lon /\ lon <= 180

\* GeoRect.__init__: assert sw.lat <= ne.lat
WrapRects ==
    {r \in [sw : [lat : WrapLats, lon : WrapLons], ne : [lat : WrapLats, lon : WrapLons]] :
        r.sw.lat <= r.ne.lat}

\* GeoPoint.random(georect): the longitude of the point returned, for
\* random.random() = k / RandomSteps
RandomLon(rect, k) ==
    LET west == rect.sw.lon
        east == rect.ne.lon
        span == IF east - west < 0 THEN east - west + 360 ELSE east - west
        lon0 == west + (span * k) \div RandomSteps
        lon == IF lon0 > 180 THEN lon0 - 360
               ELSE IF lon0 < -180 THEN lon0 + 360
               ELSE lon0
    IN  IF ValidGeoPoint(rect.sw.lat, lon) THEN lon ELSE Raised

\* GeoRect.area(): 360 * 1000 * area / (2 * pi * earth_radius ** 2), or Raised
\* when the assert fails
Area(rect) ==
    LET spherical_cap_difference == IF SinMilli(rect.sw.lat) >= SinMilli(rect.ne.lat)
                                    THEN SinMilli(rect.sw.lat) - SinMilli(rect.ne.lat)
                                    ELSE SinMilli(rect.ne.lat) - SinMilli(rect.sw.lat)
        area == spherical_cap_difference * (rect.ne.lon - rect.sw.lon)
        earth_surface_area == 2000
    IN  IF area > 0 /\ area <= 360 * spherical_cap_difference
                    /\ area <= 360 * earth_surface_area
        THEN area ELSE Raised

\* the point of the projections for a latitude and longitude in degrees
AsGeoPoint(p) ==
    [wx |-> ((p.lon + 180) * Unit) \div 360,
     wy |-> (MercatorMilli(p.lat) * Unit) \div 1000]

\* the x of the columns of MapTileGrid.from_georect(rect, WrapZoom, downward)
GridColumns(rect) ==
    LET g == FromGeorect(ToMaptile(AsGeoPoint(rect.sw), WrapZoom, "downward"),
                         ToMaptile(AsGeoPoint(rect.ne), WrapZoom, "downward"),
                         WrapZoom, "downward")
    IN  {g.maptiles[i][1].x : i \in 1..g.width}

\* GeoRect.around_geopoint(geopoint, width, height) with width_geo / 2 = hw
\* and height_geo / 2 = hh: the GeoRect, or Raised when an assert of
\* GeoPoint.__init__ or GeoRect.__init__ fails
AroundGeopoint(geopoint, hw, hh) ==
    LET southwest == [lat |-> geopoint.lat - hh, lon |-> geopoint.lon - hw]
        northeast == [lat |-> geopoint.lat + hh, lon |-> geopoint.lon + hw]
    IN  IF ValidGeoPoint(southwest.lat, southwest.lon)
           /\ ValidGeoPoint(northeast.lat, northeast.lon)
           /\ southwest.lat <= northeast.lat
        THEN [sw |-> southwest, ne |-> northeast]
        ELSE <<Raised>>

InitWrap ==
    /\ MainIdle /\ ZoomIdle /\ ShapeIdle /\ TilesIdle /\ RetryIdle
    /\ wrect \in WrapRects
    /\ wpc = "random"
    /\ wlon = 0 /\ warea = 0 /\ wcolumns = {} /\ waround = <<>>

UnchangedButWrap ==
    UNCHANGED <<cfgVars, mainVars, gridVars, gateVars, dlVars, zoomVars, shapeVars,
                tileVars, retryVars>>

\* GeoPoint.random(wrect)
WrapRandom ==
    /\ wpc = "random"
    /\ \E k \in 0..(RandomSteps - 1) : wlon' = RandomLon(wrect, k)
    /\ wpc' = "area"
    /\ UNCHANGED <<wrect, warea, wcolumns, waround>>
    /\ UnchangedButWrap

\* wrect.area()
WrapArea ==
    /\ wpc = "area"
    /\ warea' = Area(wrect)
    /\ wpc' = "from_georect"
    /\ UNCHANGED <<wrect, wlon, wcolumns, waround>>
    /\ UnchangedButWrap

\* MapTileGrid.from_georect(wrect, WrapZoom, downward)
WrapGrid ==
    /\ wpc = "from_georect"
    /\ wcolumns' = GridColumns(wrect)
    /\ wpc' = "around"
    /\ UNCHANGED <<wrect, wlon, warea, waround>>
    /\ UnchangedButWrap

\* GeoRect.around_geopoint(wrect.sw, width, height)
WrapAround ==
    /\ wpc = "around"
    /\ \E hw \in HalfWidths : \E hh \in HalfHeights :
         waround' = [centre |-> wrect.sw, hw |-> hw,
                     result |-> AroundGeopoint(wrect.sw, hw, hh)]
    /\ wpc' = "done"
    /\ UNCHANGED <<wrect, wlon, warea, wcolumns>>
    /\ UnchangedButWrap

NextWrap == WrapRandom \/ WrapArea \/ WrapGrid \/ WrapAround

SpecWrap == InitWrap /\ [][NextWrap]_vars

----------------------------------------------------------------------------
(* Tooter.__retry__, as called by Tooter.upload and Tooter.toot             *)

\* the largest tries explored (upload and toot pass none: tries = 3)
MaxAttempts == 3

\* tries = 3
DefaultTries == 3

\* delay = 10
DefaultDelay == 10

\* the delays explored
Delays == {0, DefaultDelay}

\* what one call of fn does: it returns, raises `exception` (MastodonError) or
\* raises an exception of another type
FnOutcomes == {"returns", "exception", "other"}

\* what fn returns: __do_upload__ returns the media dict of media_post (one
\* dict per call), __do_toot__ returns None
FnValue(name, call) == IF name = "upload" THEN <<"media", call>> ELSE <<"None">>

\* the number of calls of fn in a log
Calls(log) == Cardinality({i \in DOMAIN log : log[i].op = "call"})

\* (mutant: the exception is re-raised while one try is left)
LastTry_OneEarly(tries_left) == tries_left <= 1

\* if tries == 0, in the except clause
LastTry(tries_left) == tries_left = 0

InitRetry ==
    /\ MainIdle /\ ZoomIdle /\ ShapeIdle /\ TilesIdle /\ WrapIdle
    /\ rfn \in {"upload", "toot"}
    /\ rinitial \in 0..MaxAttempts
    /\ rtries = rinitial
    /\ rdelay \in Delays
    /\ rpc = "while"
    /\ rlog = <<>>
    /\ rresult = <<>>

UnchangedButRetry ==
    UNCHANGED <<cfgVars, mainVars, gridVars, gateVars, dlVars, zoomVars, shapeVars,
                tileVars, wrapVars>>

\* while tries > 0: tries -= 1, or the end of the loop and of the function
RetryWhile ==
    /\ rpc = "while"
    /\ IF rtries > 0
       THEN /\ rtries' = rtries - 1
            /\ rpc' = "try"
            /\ rresult' = rresult
       ELSE /\ rtries' = rtries
            /\ rpc' = "returned"
            /\ rresult' = <<"None">>
    /\ UNCHANGED <<rfn, rinitial, rdelay, rlog>>
    /\ UnchangedButRetry

\* try: return fn() / except exception as e: if tries == 0: raise e
RetryCall ==
    /\ rpc = "try"
    /\ \E o \in FnOutcomes :
         LET call == Calls(rlog) + 1 IN
         /\ rlog' = Append(rlog, [op |-> "call", outcome |-> o])
         /\ IF o = "returns"
            THEN rpc' = "returned" /\ rresult' = FnValue(rfn, call)
            ELSE IF o = "other"
            THEN rpc' = "raised" /\ rresult' = <<"other", call>>
            ELSE IF LastTry(rtries)
            THEN rpc' = "raised" /\ rresult' = <<"exception", call>>
            ELSE rpc' = "sleep" /\ rresult' = rresult
    /\ UNCHANGED <<rfn, rinitial, rtries, rdelay>>
    /\ UnchangedButRetry

\* time.sleep(delay)
RetrySleep ==
    /\ rpc = "sleep"
    /\ rlog' = Append(rlog, [op |-> "sleep", outcome |-> rdelay])
    /\ rpc' = "while"
    /\ UNCHANGED <<rfn, rinitial, rtries, rdelay, rresult>>
    /\ UnchangedButRetry

NextRetry == RetryWhile \/ RetryCall \/ RetrySleep

SpecRetry == InitRetry /\ [][NextRetry]_vars

----------------------------------------------------------------------------
(* Claims *)

\* positions of the main thread from the call of grid.download() on
DownloadPcs == {"download", "pool", "retry", "retry_get", "join", "stitch", "done"}

\* the tiles stitch pastes are all loaded
AllLoaded == \A t \in Tiles : status[t] \in {DOWNLOADED, CACHED}

\* the monitor thread can never leave its loop: the main thread waits in
\* join() or has ended, no load is running, and a tile is still PENDING or
\* DOWNLOADING
Hung ==
    /\ pc \in {"join", "fatal"}
    /\ monitor = "run"
    /\ verbosity # "quiet"
    /\ running = {}
    /\ AnyUnfinished(status)

\* C1: when MapTileGrid.stitch reads the tiles' images, every tile of the grid
\* is DOWNLOADED or CACHED, for every load outcome and verbosity.
C1_StitchBarrier == pc = "stitch" => AllLoaded

\* the pool has drained: download is in or past the retry decision
PoolIsDrained ==
    \/ pc \in {"retry", "retry_get", "join", "stitch", "done"}
    \/ pc = "fatal" /\ monitor # "none"

\* the retry pass has run to its end or was skipped
RetryPassOver ==
    \/ pc \in {"join", "stitch", "done"}
    \/ pc = "fatal" /\ fatal = "missing_tiles"

\* download's final check has been made
DownloadEnded ==
    \/ pc \in {"stitch", "done"}
    \/ pc = "fatal" /\ fatal = "missing_tiles"

\* the final check of download: it raises exactly when a tile is in ERROR,
\* naming exactly the tiles in ERROR, and stitch and the later steps are
\* never reached with a tile in ERROR; one tile of 20 (5%) in ERROR after the
\* pool pass is not retried
FinalCheckRaises ==
    /\ pc \in {"stitch", "done"} => ErrorTiles(status) = {}
    /\ DownloadEnded => (fatal = "missing_tiles" <=> ErrorTiles(status) # {})
    /\ fatal = "missing_tiles" => named = ErrorTiles(status)
    /\ (NTiles = 20 /\ Cardinality(poolErrors) = 1)
           => /\ pc \notin {"retry", "retry_get", "stitch", "done"}
              /\ \A t \in Tiles : loads[t] <= 1
              /\ (DownloadEnded => fatal = "missing_tiles" /\ named = poolErrors)

\* C2: whenever a tile is still in ERROR once the pool has drained and the
\* retry pass (if any) is over, download raises the 'unable to load' error
\* naming exactly the tiles in ERROR, and stitch and the later steps never
\* run; with one tile of 20 (5%) in ERROR there is no retry and no mosaic.
C2_MissingTilesFatal ==
    /\ []FinalCheckRaises
    /\ (pc = "join" /\ ErrorTiles(status) # {})
           ~> (pc = "fatal" /\ fatal = "missing_tiles")

\* a run in which one tile of 20 failed and download raised naming it
FivePercentRaised ==
    /\ NTiles = 20 /\ Cardinality(poolErrors) = 1
    /\ pc = "fatal" /\ fatal = "missing_tiles" /\ named = poolErrors

\* after the pool pass exactly one tile of a grid of n tiles is in ERROR and
\* every other tile is DOWNLOADED or CACHED
OneErrorOf(n) ==
    /\ NTiles = n
    /\ Cardinality(poolErrors) = 1
    /\ \A t \in Tiles \ poolErrors : status[t] \in {DOWNLOADED, CACHED}

\* the retry pass is running or has loaded the failed tiles again
RetryPerformed ==
    \/ pc \in {"retry", "retry_get"}
    \/ \A t \in poolErrors : loads[t] = 2

\* the second load of every failed tile has succeeded
RetrySucceeded ==
    \A t \in poolErrors : loads[t] = 2 /\ status[t] \in {DOWNLOADED, CACHED}

\* C3 as stated: with exactly one of 50 tiles in ERROR after the pool pass,
\* download performs the retry pass, and if that tile's second load succeeds
\* it returns without raising with all 50 tiles DOWNLOADED or CACHED.
C3_OneOfFiftyRetried ==
    OneErrorOf(50) =>
        /\ RetryPerformed
        /\ (RetrySucceeded => pc \in {"join", "stitch", "done"} /\ AllLoaded)

\* C3 amended: one of 50 tiles is 2%, which is not under 2%: download makes
\* no retry pass and raises naming that tile; with exactly one of 51 tiles in
\* ERROR after the pool pass (the others DOWNLOADED or CACHED) download
\* performs the retry pass, and if that tile's second load succeeds it
\* returns without raising with all 51 tiles DOWNLOADED or CACHED.
C3_OneOfFiftyOneRetried ==
    /\ OneErrorOf(50) =>
           /\ ~RetryPerformed
           /\ pc \in {"join", "fatal"}
           /\ (pc = "fatal" => fatal = "missing_tiles" /\ named = poolErrors)
    /\ OneErrorOf(51) =>
           /\ RetryPerformed
           /\ (RetrySucceeded =>
                  /\ pc \in {"join", "stitch", "done"}
                  /\ fatal = "none"
                  /\ AllLoaded)

C3_Witness == OneErrorOf(51) /\ RetrySucceeded /\ pc = "stitch"

\* the number of tiles in ERROR after the pool pass is nonzero and strictly
\* less than 2% of the number of tiles
Under2Percent ==
    /\ Cardinality(poolErrors) > 0
    /\ 100 * Cardinality(poolErrors) < 2 * NTiles

\* C4: tiles are loaded a second time exactly when, after the pool has
\* drained, the number of tiles in ERROR is nonzero and under 2% of all
\* tiles; then each tile that was in ERROR is loaded once more, one after
\* another in flat() order on the calling thread, and no other tile is; else
\* no tile is loaded twice.
C4_RetryPass ==
    /\ \A t \in Tiles :
           /\ loads[t] <= 2
           /\ (loads[t] = 2 => PoolIsDrained /\ Under2Percent /\ t \in poolErrors)
    /\ (PoolIsDrained /\ Under2Percent /\ ~RetryPassOver) =>
           (pc \in {"retry", "retry_get"} \/ (pc = "fatal" /\ fatal = "hard_fault"))
    /\ RetryPassOver =>
           \A t \in Tiles :
               loads[t] = IF Under2Percent /\ t \in poolErrors THEN 2 ELSE 1
    /\ pc \in {"retry", "retry_get"} =>
           /\ Under2Percent
           /\ running = {} /\ taken = Len(tiles)
           /\ Cardinality({t \in Tiles : status[t] = DOWNLOADING /\ loads[t] = 2}) <= 1
           /\ \A i \in 1..Len(missing_tiles) :
                  loads[missing_tiles[i]] = 2
                      <=> (i < retryIdx \/ (i = retryIdx /\ pc = "retry_get"))

C4_Witness ==
    /\ Cardinality(poolErrors) = 2 /\ Under2Percent
    /\ pc = "stitch"
    /\ \A t \in poolErrors : loads[t] = 2

\* C5: without a configured point, grid.download() is never started for a grid
\* that has_high_quality_imagery rejected: after max_tries rejections the run
\* ends with the 'too many retries' error instead.
C5_ExhaustionIsFatal == pc \in DownloadPcs => ~rejected

\* C6: a 200 response with an invalid image body aborts the run: the tile is
\* not put in ERROR, stitch does not run and the run does not hang, for a
\* probe loaded by the quality gate and for a tile loaded by a pool worker.
C6_HardFaultAborts ==
    /\ \A t \in faulted : status[t] # ERROR
    /\ faulted # {} => pc \notin {"stitch", "done"} /\ ~Hung
    /\ \A c \in DOMAIN probe :
           (probe[c] = DOWNLOADING /\ pc # "gate_get")
               => (pc = "fatal" /\ fatal = "hard_fault")

\* C7: one call of random_geopoint performs at most 250 draw-and-test
\* iterations: after 250 rejections it draws no more and raises.
C7_AtMost250Draws ==
    /\ gdraws <= IterationLimit
    /\ (gdraws = IterationLimit => gpc \in {"while", "returned", "raised"})
    /\ (gdraws = IterationLimit /\ gpc = "while" => gi >= IterationLimit)

ZoomDone == zpc \in {"returned", "raised", "grid"}

\* zoom z fulfils the constraint
Fits(z) == MetersPerPixel(zlat, z) <= zmax

\* C8: compute_zoom_level raises when the meters per pixel at zoom 23 exceed
\* the constraint, and never returns a zoom outside 0..23.
C8_NoValidZoomRaises ==
    ZoomDone =>
        /\ (~Fits(MaxZoom) => zpc = "raised")
        /\ (zpc # "raised" => zresult \in 0..MaxZoom)

\* C9: when some zoom in 0..23 fulfils the constraint, compute_zoom_level
\* returns the smallest such zoom, zoom 0 included.
C9_LowestZoom ==
    (ZoomDone /\ \E z \in 0..MaxZoom : Fits(z)) =>
        /\ zpc # "raised"
        /\ zresult \in 0..MaxZoom
        /\ Fits(zresult)
        /\ \A z \in 0..MaxZoom : Fits(z) => zresult <= z

\* C10: with a configured point, main's loop runs one iteration,
\* has_high_quality_imagery is never called and no probe tile exists or is
\* loaded before grid.download() starts.
C10_PinnedSkipsGate ==
    pinned =>
        /\ iter <= 1
        /\ gateCalls = 0
        /\ probe = <<>>
        /\ pc \notin {"gate", "gate_get"}
        /\ (pc \in DownloadPcs => iter = 1)

C10_Witness == pinned /\ pc = "pool" /\ iter = 1 /\ taken > 0

\* the lowest and the highest x (or y) of the tiles that cover, at the finer
\* zoom, the columns (or rows) first .. first + count - 1 of the grid
FinestMin(first, delta) == first * 2^delta
FinestMax(first, count, delta) == (first + count) * 2^delta - 1

\* probe k of corners is the outermost tile of the grid's area at zoom +
\* delta in the corner Corners[k]
ProbeIsOutermost(k) ==
    /\ corners[k].zoom = origin.zoom + quality_check_delta
    /\ corners[k].direction = origin.direction
    /\ corners[k].x = IF Corners[k][1] = 0
                      THEN FinestMin(origin.x, quality_check_delta)
                      ELSE FinestMax(origin.x, width, quality_check_delta)
    /\ corners[k].y = IF Corners[k][2] = 0
                      THEN FinestMin(origin.y, quality_check_delta)
                      ELSE FinestMax(origin.y, height, quality_check_delta)

\* has_high_quality_imagery has returned and main has not moved on
GateReturned == probe # <<>> /\ pc \in {"for", "download"}

\* C11: has_high_quality_imagery probes, for each corner of the grid, the
\* outermost tile of the grid's area at zoom + delta in that corner (also for
\* grids 1 wide or 1 high); it returns True exactly when no probe ended its
\* load in ERROR, and returns False at the first probe that ends in ERROR,
\* the probes after it still PENDING.
C11_GateProbesCorners ==
    /\ probe # <<>> =>
           /\ Len(corners) = 4 /\ Len(probe) = 4
           /\ \A k \in 1..4 : ProbeIsOutermost(k)
    /\ pc \in {"gate", "gate_get"} =>
           /\ \A k \in 1..4 : probe[k] # ERROR
           /\ \A k \in 1..4 : k > corner => probe[k] = PENDING
    /\ (GateReturned /\ pc = "download") =>
           /\ ~rejected
           /\ \A k \in 1..4 : probe[k] \in {CACHED, DOWNLOADED}
    /\ (GateReturned /\ pc = "for") =>
           /\ rejected
           /\ \E c \in 1..4 :
                  /\ probe[c] = ERROR
                  /\ \A k \in 1..4 : k < c => probe[k] \in {CACHED, DOWNLOADED}
                  /\ \A k \in 1..4 : k > c => probe[k] = PENDING

\* the gate rejected a grid one tile wide at its second probe
C11_Witness ==
    /\ GateReturned /\ pc = "for" /\ rejected
    /\ width = 1 /\ height = 2 /\ quality_check_delta = 2
    /\ probe[2] = ERROR /\ probe[3] = PENDING
    /\ corners[1].x # corners[3].x

\* the corners of the georect
RectCorners == {"sw", "ne"}

\* the y of the equator in projected coordinates at zoom tzoom
EquatorY == (2^tzoom * Unit) \div 2

\* C12 as stated: ObliqueWebMercator.project with direction northward returns
\* the same (x, y) as WebMercator.project for the same point and zoom.
C12_NorthwardIsStandard ==
    (tpc # "project" /\ tdirection = "northward") =>
        \A c \in RectCorners : cropped[c] = WebMercatorProject(georect[c], tzoom)

\* C12 amended: with direction northward ObliqueWebMercator.project returns
\* the x of WebMercator.project, and a y whose distance from the equator's y
\* is that of WebMercator.project's y divided by sqrt(2), on the same side:
\* the two y are equal only on the equator.
C12_NorthwardForeshortened ==
    (tpc # "project" /\ tdirection = "northward") =>
        \A c \in RectCorners :
            LET std == WebMercatorProject(georect[c], tzoom)
                dStd == std[2] - EquatorY
                dObl == cropped[c][2] - EquatorY
            IN  /\ cropped[c][1] = std[1]
                /\ (cropped[c][2] = std[2] <=> std[2] = EquatorY)
                /\ (dStd >= 0 => dObl >= 0) /\ (dStd <= 0 => dObl <= 0)
                /\ 2 * dObl * dObl <= dStd * dStd
                /\ dStd * dStd < 2 * (dObl + 1) * (dObl + 1)
                       \/ dStd * dStd < 2 * (dObl - 1) * (dObl - 1)

C12_Witness ==
    /\ tpc = "done" /\ tdirection = "northward"
    /\ georect.sw.wy # georect.ne.wy
    /\ cropped.sw[2] # WebMercatorProject(georect.sw, tzoom)[2]
    /\ cropped.ne[2] = WebMercatorProject(georect.ne, tzoom)[2]

\* C14: from_georect returns a rectangular grid without gaps for every
\* direction: with xmin, xmax, ymin, ymax the smaller and larger x and y of
\* the two corner tiles, it is xmax-xmin+1 wide and ymax-ymin+1 high, every
\* column has that height, and the tile at [i][j] is (xmin+i, ymin+j) at the
\* given zoom and direction; corners in the same tile give a 1x1 grid.
C14_GridIsRectangular ==
    tpc \in {"zoomed", "done"} =>
        LET xmin == Min(bottomleft.x, topright.x)
            xmax == Max(bottomleft.x, topright.x)
            ymin == Min(bottomleft.y, topright.y)
            ymax == Max(bottomleft.y, topright.y)
            sw == ToMaptile(georect.sw, tzoom, tdirection)
            ne == ToMaptile(georect.ne, tzoom, tdirection)
        IN  /\ {xmin, xmax} = {sw.x, ne.x} /\ {ymin, ymax} = {sw.y, ne.y}
            /\ tgrid.width = xmax - xmin + 1
            /\ tgrid.height = ymax - ymin + 1
            /\ Len(tgrid.maptiles) = tgrid.width
            /\ \A i \in 1..tgrid.width :
                   /\ Len(tgrid.maptiles[i]) = tgrid.height
                   /\ \A j \in 1..tgrid.height :
                          Coordinates(tgrid.maptiles[i][j]) =
                              [zoom |-> tzoom, direction |-> tdirection,
                               x |-> xmin + (i - 1), y |-> ymin + (j - 1)]
            /\ (sw.x = ne.x /\ sw.y = ne.y) => (tgrid.width = 1 /\ tgrid.height = 1)

\* a grid of several columns and rows for a direction that needs both swaps
C14_Witness ==
    /\ tpc = "done" /\ tdirection = "southward"
    /\ tgrid.width >= 2 /\ tgrid.height >= 2
    /\ ToMaptile(georect.sw, tzoom, tdirection).x > ToMaptile(georect.ne, tzoom, tdirection).x
    /\ ToMaptile(georect.sw, tzoom, tdirection).y < ToMaptile(georect.ne, tzoom, tdirection).y

\* C15: zoomed(delta) returns a 2^delta x 2^delta grid of new PENDING tiles
\* at zoom + delta with the tile's direction, the tile at [i][j] having the
\* coordinates (x * 2^delta + i, y * 2^delta + j); delta = 1 gives the four
\* children (2x, 2y), (2x+1, 2y), (2x, 2y+1), (2x+1, 2y+1), delta = 0 a single
\* tile with the tile's own coordinates; the tile itself is left unchanged.
C15_ZoomedSubgrid ==
    tpc = "done" =>
        LET d == subgrid.zoom_delta
            g == subgrid.grid
            parent == subgrid.self
            children == {Coordinates(g.maptiles[i][j]) : i \in 1..g.width, j \in 1..g.height}
            child(x, y) == [zoom |-> parent.zoom + d, direction |-> parent.direction,
                            x |-> x, y |-> y]
        IN  /\ g.width = 2^d /\ g.height = 2^d
            /\ Len(g.maptiles) = 2^d
            /\ \A i \in 1..g.width :
                   /\ Len(g.maptiles[i]) = 2^d
                   /\ \A j \in 1..g.height :
                          /\ Coordinates(g.maptiles[i][j]) =
                                 child(parent.x * 2^d + (i - 1), parent.y * 2^d + (j - 1))
                          /\ g.maptiles[i][j].status = PENDING
                          /\ g.maptiles[i][j].image = "none"
            /\ d = 1 => children = {child(2 * parent.x, 2 * parent.y),
                                    child(2 * parent.x + 1, 2 * parent.y),
                                    child(2 * parent.x, 2 * parent.y + 1),
                                    child(2 * parent.x + 1, 2 * parent.y + 1)}
            /\ d = 0 => children = {Coordinates(parent)}
            /\ bottomleft = parent

C15_Witness ==
    /\ tpc = "done" /\ subgrid.zoom_delta = 2
    /\ bottomleft.x > 0 /\ bottomleft.y > 0
    /\ subgrid.grid.maptiles[4][4].x = 4 * bottomleft.x + 3

\* C16: to_maptile returns the tile (floor(x), floor(y)) of the projection
\* (x, y) that crop computes for the same point, zoom and direction, so
\* tile.x <= x < tile.x + 1 and tile.y <= y < tile.y + 1, and the projection
\* itself is not floored.
C16_TileContainsProjection ==
    /\ tpc = "from_georect" =>
           \A c \in RectCorners :
               LET tile == IF c = "sw" THEN bottomleft ELSE topright
                   x == cropped[c][1]
                   y == cropped[c][2]
               IN  /\ tile.zoom = tzoom /\ tile.direction = tdirection
                   /\ tile.x * Unit <= x /\ x < (tile.x + 1) * Unit
                   /\ tile.y * Unit <= y /\ y < (tile.y + 1) * Unit
    /\ (tpc # "project" /\ tdirection \in {"downward", "northward"}) =>
           \A c \in RectCorners : cropped[c][1] = georect[c].wx * 2^tzoom
    /\ (tpc # "project" /\ tdirection = "downward") =>
           \A c \in RectCorners : cropped[c][2] = georect[c].wy * 2^tzoom

\* an oblique direction, a projection strictly inside its tile
C16_Witness ==
    /\ tpc = "from_georect" /\ tdirection = "eastward"
    /\ cropped.sw[1] % Unit # 0 /\ cropped.sw[2] % Unit # 0
    /\ bottomleft.x * Unit < cropped.sw[1]
    /\ cropped.sw # WebMercatorProject(georect.sw, tzoom)

\* the loop of compute_zoom_level taken step by step ends as ZoomLoop does
ZoomLoopAgrees ==
    /\ zpc \in {"returned", "grid"} => zresult = ComputeZoomLevel(zlat, zmax)
    /\ zpc = "raised" => ComputeZoomLevel(zlat, zmax) = Raised

\* C13: for a latitude in (-90, 90) and constraints m1 <= m2 for which
\* compute_zoom_level returns a zoom for both, the zoom returned for m1 is at
\* least the zoom returned for m2.
C13_ZoomMonotonic ==
    (/\ zpc = "compared"
     /\ zlat > -90 /\ zlat < 90
     /\ zmax <= zlooser.max
     /\ zresult # Raised /\ zlooser.result # Raised) => zresult >= zlooser.result

\* a stricter constraint that yields a strictly higher zoom
C13_Witness ==
    /\ zpc = "compared" /\ zlat = 60
    /\ zmax < zlooser.max
    /\ zlooser.result # Raised /\ zlooser.result > 0
    /\ zresult > zlooser.result /\ zresult < MaxZoom

\* the pairs (status before, status after) of the tiles whose status a step
\* changes
StatusChanges(old, new) ==
    {<<old[t], new[t]>> : t \in {u \in DOMAIN old \cap DOMAIN new : old[u] # new[u]}}

ForwardTransitions ==
    {<<PENDING, DOWNLOADING>>, <<DOWNLOADING, DOWNLOADED>>,
     <<DOWNLOADING, ERROR>>, <<PENDING, CACHED>>}

\* the transitions of a second load of a tile in ERROR
RetryTransitions == {<<ERROR, DOWNLOADING>>, <<ERROR, CACHED>>}

\* C17 as stated: over a whole run the only status transitions of a tile of
\* the grid or of a probe are PENDING -> DOWNLOADING, DOWNLOADING ->
\* DOWNLOADED, DOWNLOADING -> ERROR and PENDING -> CACHED; none leaves
\* CACHED, DOWNLOADED or ERROR.
C17_OnlyForwardTransitions ==
    [][/\ StatusChanges(status, status') \subseteq ForwardTransitions
       /\ StatusChanges(probe, probe') \subseteq ForwardTransitions]_vars

\* C17 amended: besides the four transitions, the retry pass takes the tile
\* it loads again from ERROR to DOWNLOADING (or to CACHED when its file is by
\* then found in the tile store); no other transition leaves ERROR, none
\* leaves CACHED or DOWNLOADED, and a probe never leaves ERROR.
C17_TransitionsWithRetry ==
    [][/\ StatusChanges(status, status') \subseteq ForwardTransitions \cup RetryTransitions
       /\ \A t \in DOMAIN status \cap DOMAIN status' :
              (status[t] = ERROR /\ status'[t] # ERROR)
                  => (pc = "retry" /\ t = missing_tiles[retryIdx] /\ loads'[t] = 2)
       /\ StatusChanges(probe, probe') \subseteq ForwardTransitions]_vars

\* the retry pass has taken a tile from ERROR to DOWNLOADING
C17_Witness ==
    /\ pc = "retry_get"
    /\ poolErrors # {}
    /\ status[missing_tiles[retryIdx]] = DOWNLOADING
    /\ loads[missing_tiles[retryIdx]] = 2

\* MapTileGrid.download has returned or raised
DownloadReturned == pc \in {"stitch", "done", "fatal"}

\* C18: with every request and disk operation returning and every thread
\* scheduled again and again, every call of MapTileGrid.download eventually
\* returns or raises: every tile leaves PENDING and DOWNLOADING, the
\* monitor's loop ends and the join on its thread completes.
C18_DownloadTerminates ==
    /\ (pc = "download") ~> DownloadReturned
    /\ (pc = "download") ~> ~AnyUnfinished(status)
    /\ (pc = "join") ~> (monitor # "run")

\* the same, for the calls in which no worker of the pool raises
C18_TerminatesUnlessWorkerRaises ==
    /\ (pc = "download") ~> (DownloadReturned \/ faulted # {})
    /\ (pc = "download") ~> (~AnyUnfinished(status) \/ faulted # {})
    /\ (pc = "join") ~> (monitor # "run" \/ faulted # {})

\* the calls of maptile.load() that have started and not ended: those of the
\* pool's workers and the one of the main thread's retry pass
LoadsInProgress == Cardinality(running) + (IF pc = "retry_get" THEN 1 ELSE 0)

DownloadingTiles == {t \in DOMAIN status : status[t] = DOWNLOADING}

\* the tiles whose load the pool has started
Started == {tiles[i] : i \in 1..taken}

\* every tile of the grid is submitted exactly once, and a worker calls the
\* load of a submitted tile once
SubmittedOnce ==
    pc \in {"pool", "retry", "retry_get", "join"} =>
        /\ Len(tiles) = NTiles
        /\ \A t \in Tiles : Cardinality({i \in 1..Len(tiles) : tiles[i] = t}) = 1
        /\ pc = "pool" => \A t \in Tiles : loads[t] = (IF t \in Started THEN 1 ELSE 0)
        /\ pc # "pool" => taken = NTiles

\* at most max(width, height) loads are in progress, and the retry pass runs
\* its loads one at a time on the main thread
LoadsBounded ==
    /\ pc \in {"pool", "retry", "retry_get", "join"} => LoadsInProgress <= Threads
    /\ pc \in {"retry", "retry_get"} => running = {}

\* C19: during MapTileGrid.download at most max(width, height) loads are in
\* progress at a time, so at most that many tiles are DOWNLOADING at any
\* moment of the pool pass; every tile is submitted to the pool exactly once
\* whatever the shuffled order; the retry pass has at most one load in
\* progress.
C19_PoolBound ==
    /\ LoadsBounded
    /\ SubmittedOnce
    /\ pc = "pool" => Cardinality(DownloadingTiles) <= Threads

\* the same, counting the tiles in DOWNLOADING only while no worker has raised
C19_BoundUnlessWorkerRaises ==
    /\ LoadsBounded
    /\ SubmittedOnce
    /\ (pc = "pool" /\ faulted = {}) => Cardinality(DownloadingTiles) <= Threads

\* the pool is full while tiles are still waiting for a worker
PoolFull == pc = "pool" /\ Cardinality(running) = Threads /\ taken < Len(tiles)

\* the tiles on which a value kept per tile differs before and after a step
Changed(old, new) == {t \in DOMAIN old \cap DOMAIN new : old[t] # new[t]}

\* the tile of the grid whose load() or download() takes the step, if any
LoadedTile ==
    IF pc = "pool" /\ taken' # taken THEN {tiles[taken']}
    ELSE IF pc = "pool" THEN running \ running'
    ELSE IF pc \in {"retry", "retry_get"} THEN {missing_tiles[retryIdx]}
    ELSE {}

\* the probe whose load() or download() takes the step, if any
LoadedProbe == IF pc \in {"gate", "gate_get"} THEN {corner} ELSE {}

\* C20: the progress monitor never changes a tile's status or image nor the
\* grid's contents, and a tile's status, image and file are written only by
\* a load/download call on that same tile: a step of loading tile A leaves
\* every other tile B as it was.
C20_LoadWritesOwnTile ==
    [][/\ MonitorPoll => UNCHANGED <<width, height, origin, status, image, written, probe>>
       /\ (Changed(status, status') \cup Changed(image, image')
               \cup (written' \ written) \cup (written \ written')) \subseteq LoadedTile
       /\ Changed(probe, probe') \subseteq LoadedProbe]_vars

\* two tiles of a grid are being downloaded at the same time, one has got
\* its response, and the monitor is polling
C20_Witness ==
    /\ pc = "pool" /\ monitor = "run" /\ verbosity # "quiet"
    /\ \E a, b \in Tiles :
           /\ a # b
           /\ status[a] \in {DOWNLOADED, ERROR}
           /\ b \in running /\ status[b] = DOWNLOADING

\* the file of tile t was a complete image when this run first loaded it
\* (the run has not written it)
StoredGood(t) ==
    /\ pathTemplate
    /\ t \notin written
    /\ FilesAt(t, pathTemplate, written) = {"good"}

\* the states of the tiles that load() has been called on
LoadOutcomes ==
    /\ \A t \in Tiles :
           /\ (loads[t] >= 1 /\ StoredGood(t)) => (status[t] = CACHED /\ gets[t] = 0)
           /\ (loads[t] = 1 /\ status[t] = CACHED) => gets[t] = 0
           /\ (loads[t] >= 1 /\ status[t] # CACHED) => gets[t] >= 1
           /\ status[t] = CACHED => pathTemplate
    /\ ~pathTemplate => (written = {} /\ \A t \in Tiles : gets[t] = loads[t])

\* C21: with a tile path template and a cache file that opens and decodes,
\* MapTile.load takes the tile straight to CACHED with no HTTP request and
\* without passing through DOWNLOADING; on a miss or a read failure it goes
\* on to the network; without a path template every load goes to the
\* network and no file is written.
C21_CacheBeforeNetwork ==
    /\ []LoadOutcomes
    /\ [][\A t \in Changed(status, status') :
              status'[t] = CACHED =>
                  /\ gets' = gets /\ written' = written
                  /\ status[t] # DOWNLOADING
                  /\ loads[t] = 0 => status[t] = PENDING]_vars

\* with a tile store, one tile came from the store without a request and
\* another, missing from it, was downloaded and written
C21_Witness ==
    /\ pathTemplate
    /\ \E a, b \in Tiles :
           /\ status[a] = CACHED /\ loads[a] = 1 /\ gets[a] = 0
           /\ status[b] = DOWNLOADED /\ gets[b] = 1 /\ b \in written

\* the tiles whose download ended in ERROR or with an exception in this step
EndedBadly ==
    {t \in Changed(status, status') : status'[t] = ERROR} \cup (faulted' \ faulted)

\* C22: MapTile.download writes the tile's file only after a response with
\* status 200 whose body decoded to a 256x256 RGB image, the file holds that
\* body, and DOWNLOADED is set only once the file is written; a download
\* that ends in ERROR or with a hard fault leaves the tile store unchanged.
C22_WriteAfterChecks ==
    /\ [](\A t \in written :
             /\ pathTemplate /\ gets[t] >= 1
             /\ status[t] = DOWNLOADED /\ image[t] = "ok"
             /\ FilesAt(t, pathTemplate, written) = {"good"})
    /\ [](\A t \in Tiles : (pathTemplate /\ status[t] = DOWNLOADED) => t \in written)
    /\ [][/\ written \subseteq written' \/ pc = "grid"
          /\ EndedBadly # {} => written' = written
          /\ written' \ written \subseteq
                 {t \in Changed(status, status') : status'[t] = DOWNLOADED}]_vars

\* with a tile store, one download was written and another ended with a body
\* of the wrong format
C22_Witness ==
    /\ pathTemplate
    /\ \E a, b \in Tiles :
           /\ a \in written /\ status[a] = DOWNLOADED
           /\ b \in faulted /\ image[b] = "bad" /\ b \notin written

\* the longitude span of wrect crosses the antimeridian
Wrapped == wrect.sw.lon > wrect.ne.lon

\* lon lies in the span that runs eastward from sw.lon to ne.lon
InSpan(lon, rect) ==
    IF rect.sw.lon <= rect.ne.lon
    THEN rect.sw.lon <= lon /\ lon <= rect.ne.lon
    ELSE lon >= rect.sw.lon \/ lon <= rect.ne.lon

\* the columns of the tiles from the one of sw eastward across the
\* antimeridian to the one of ne
SpanColumns(rect) ==
    LET x1 == ToMaptile(AsGeoPoint(rect.sw), WrapZoom, "downward").x
        x2 == ToMaptile(AsGeoPoint(rect.ne), WrapZoom, "downward").x
    IN  (x1..(2^WrapZoom - 1)) \cup (0..x2)

RandomWraps ==
    (Wrapped /\ wpc \in {"area", "from_georect", "around", "done"})
        => (wlon # Raised /\ ValidGeoPoint(0, wlon) /\ InSpan(wlon, wrect))

AreaWraps ==
    (Wrapped /\ wrect.sw.lat < wrect.ne.lat /\ wpc \in {"from_georect", "around", "done"})
        => (warea # Raised /\ warea > 0)

\* the same three for the rectangles that do not cross the antimeridian
UnwrappedRespected ==
    (~Wrapped /\ wpc = "done") =>
        /\ wlon # Raised /\ InSpan(wlon, wrect)
        /\ (wrect.sw.lat < wrect.ne.lat /\ wrect.sw.lon < wrect.ne.lon) => warea > 0
        /\ wcolumns = ToMaptile(AsGeoPoint(wrect.sw), WrapZoom, "downward").x
                         .. ToMaptile(AsGeoPoint(wrect.ne), WrapZoom, "downward").x

GridWraps ==
    (Wrapped /\ wpc \in {"around", "done"}) => wcolumns = SpanColumns(wrect)

AroundWraps ==
    (wpc = "done" /\ (waround.centre.lon - waround.hw < -180
                          \/ waround.centre.lon + waround.hw > 180))
        => waround.result # <<Raised>>

\* C23: for a GeoRect with sw.lon > ne.lon, GeoPoint.random returns a valid
\* longitude inside the span that runs eastward from sw.lon across the
\* antimeridian to ne.lon, GeoRect.area returns a positive area,
\* MapTileGrid.from_georect returns the columns covering that span, and
\* GeoRect.around_geopoint returns a rectangle when the half width reaches
\* past the antimeridian.
C23_AntimeridianRespected ==
    RandomWraps /\ AreaWraps /\ GridWraps /\ AroundWraps

\* the smaller and the larger of the two corners' projected x and y
ProjectedSpan ==
    LET xs == {cropped.sw[1], cropped.ne[1]}
        ys == {cropped.sw[2], cropped.ne[2]}
    IN  [left   |-> CHOOSE v \in xs : \A w \in xs : v <= w,
         right  |-> CHOOSE v \in xs : \A w \in xs : v >= w,
         top    |-> CHOOSE v \in ys : \A w \in ys : v <= w,
         bottom |-> CHOOSE v \in ys : \A w \in ys : v >= w]

\* n is within one pixel of the length d given in units of 1 / Unit of a tile
WithinOnePixel(n, d) ==
    /\ Unit * (n - 1) <= TILE_SIZE * d
    /\ TILE_SIZE * d <= Unit * (n + 1)

\* C24: crop computes its four insets from the continuous projections of the
\* rectangle's corners, ordered as from_georect orders the corner tiles; each
\* inset is in 0..256, left + right is at most the canvas width and top +
\* bottom at most its height, and the cropped image measures
\* 256 * (right - left) by 256 * (bottom - top) pixels within one pixel, for
\* every view direction.
C24_CropMatchesRect ==
    tpc = "cropped" =>
        LET p == ProjectedSpan
            canvas == StitchedSize(tgrid)
        IN  /\ crop = CropInsets(p)
            /\ \A i \in 1..4 : crop[i] \in 0..TILE_SIZE
            /\ crop[1] + crop[3] <= canvas[1]
            /\ crop[2] + crop[4] <= canvas[2]
            /\ WithinOnePixel(imsize[1], p.right - p.left)
            /\ WithinOnePixel(imsize[2], p.bottom - p.top)

\* an oblique view whose projection reverses both axes, on a grid of several
\* tiles, with all four insets cutting inside a tile and rounded
C24_Witness ==
    /\ tpc = "cropped" /\ tdirection = "southward"
    /\ cropped.sw[1] > cropped.ne[1] /\ cropped.sw[2] < cropped.ne[2]
    /\ tgrid.width >= 2 /\ tgrid.height >= 2
    /\ \A i \in 1..4 : crop[i] \in 1..(TILE_SIZE - 1)
    /\ (TILE_SIZE * cropped.sw[1]) % Unit # 0
    /\ imsize[1] > 0 /\ imsize[2] > 0

\* the URL of the tile at maptiles[x][y] of the grid, for t = x * height + y + 1
OwnUrl(t) ==
    [angle |-> Angle(origin.direction), zoom |-> origin.zoom,
     x |-> origin.x + ((t - 1) \div height), y |-> origin.y + ((t - 1) % height)]

\* C25: each call of MapTile.load issues at most one HTTP GET, none on a
\* cache hit, to the URL made of the tile's own zoom, x, y and direction
\* angle; a tile is requested at most twice in one acquisition, once in the
\* pool pass and once in the retry pass.
C25_OneGetPerLoad ==
    /\ [](\A t \in Tiles :
             /\ gets[t] <= loads[t] /\ gets[t] <= 2
             /\ gets[t] = 2 => t \in poolErrors
             /\ urls[t] = IF gets[t] = 0 THEN {} ELSE {OwnUrl(t)})
    /\ [][\A t \in DOMAIN gets \cap DOMAIN gets' :
              /\ gets'[t] # gets[t] =>
                     /\ gets'[t] = gets[t] + 1 /\ loads'[t] = loads[t] + 1
                     /\ status'[t] = DOWNLOADING
              /\ loads'[t] # loads[t] =>
                     /\ loads'[t] = loads[t] + 1
                     /\ status'[t] = CACHED => gets'[t] = gets[t]]_vars

\* a tile other than maptiles[0][0] was requested in the pool pass and again
\* in the retry pass
C25_Witness ==
    \E t \in Tiles :
        /\ t > 1
        /\ gets[t] = 2 /\ loads[t] = 2 /\ urls[t] = {OwnUrl(t)}

\* the log alternates calls of fn and sleeps of delay, starting with a call,
\* and every call but the last one raised `exception`
FailedThenSlept ==
    \A i \in DOMAIN rlog :
        /\ rlog[i].op = (IF i % 2 = 1 THEN "call" ELSE "sleep")
        /\ rlog[i].op = "sleep" => rlog[i].outcome = rdelay
        /\ (rlog[i].op = "call" /\ i < Len(rlog)) => rlog[i].outcome = "exception"

\* C26: __retry__ calls fn at most `tries` times; it returns the result of
\* the first call that does not raise `exception` and calls fn no more; when
\* all `tries` calls raise `exception` it raises the exception of the last
\* call after exactly `tries` calls; it sleeps `delay` only between a failed
\* call and the next call, never after the last; an exception of another
\* type propagates at once.
C26_RetryBounded ==
    /\ Calls(rlog) <= rinitial
    /\ FailedThenSlept
    /\ rinitial = 0 => rlog = <<>>
    /\ (rpc \in {"returned", "raised"} /\ rinitial > 0) =>
           /\ rlog # <<>>
           /\ rlog[Len(rlog)].op = "call"
           /\ Len(rlog) = 2 * Calls(rlog) - 1
    /\ (rpc = "returned" /\ rinitial > 0) =>
           /\ rlog[Len(rlog)].outcome = "returns"
           /\ rresult = FnValue(rfn, Calls(rlog))
    /\ rpc = "raised" => rinitial > 0
    /\ (rpc = "raised" /\ rlog[Len(rlog)].outcome = "exception") =>
           /\ Calls(rlog) = rinitial
           /\ rresult = <<"exception", rinitial>>
    /\ (rpc = "raised" /\ rlog[Len(rlog)].outcome = "other") =>
           rresult = <<"other", Calls(rlog)>>
    /\ (rlog # <<>> /\ rlog[Len(rlog)].op = "call"
           /\ rlog[Len(rlog)].outcome = "exception" /\ Calls(rlog) = rinitial)
           => rpc = "raised"
    /\ (rlog # <<>> /\ rlog[Len(rlog)].op = "call"
           /\ rlog[Len(rlog)].outcome # "exception") => rpc \in {"returned", "raised"}

\* upload with the default tries: two failed uploads, each followed by a
\* sleep, then the third call returns its media
C26_Witness ==
    /\ rfn = "upload" /\ rinitial = DefaultTries /\ rdelay = DefaultDelay
    /\ rpc = "returned" /\ Calls(rlog) = 3 /\ Len(rlog) = 5
    /\ rresult = <<"media", 3>>

\* every try failed: the exception of the last call is raised
C26_Exhausted ==
    /\ rinitial = DefaultTries /\ rpc = "raised" /\ rresult = <<"exception", 3>>

\* the while loop of ProgressIndicator.loop has been entered and left, and
\* the call of MapTileGrid.download that started it has not been followed by
\* another grid
MonitorLoopExited ==
    /\ monitor = "exited" /\ verbosity # "quiet"
    /\ pc \in {"pool", "retry", "retry_get", "join", "stitch", "done", "fatal"}

\* C27 as stated: at every moment after the monitor's loop has exited during
\* MapTileGrid.download no tile of the grid is PENDING or DOWNLOADING, the
\* retry pass included.
C27_NoneUnfinishedAfterMonitor ==
    MonitorLoopExited => ~AnyUnfinished(status)

\* C27 amended: after the monitor's loop has exited no tile is PENDING, and
\* the only tile that can be DOWNLOADING is the one the retry pass is loading
\* again, or was loading when its download raised.
C27_OnlyRetriedDownloading ==
    MonitorLoopExited =>
        \A t \in Tiles :
            /\ status[t] # PENDING
            /\ status[t] = DOWNLOADING =>
                   /\ t \in poolErrors /\ t = missing_tiles[retryIdx]
                   /\ \/ pc = "retry_get"
                      \/ pc = "fatal" /\ fatal = "hard_fault" /\ t \in faulted

\* the monitor's loop has exited after the pool pass and the retry pass has
\* set a tile to DOWNLOADING again
C27_Witness ==
    /\ MonitorLoopExited /\ pc = "retry_get"
    /\ status[missing_tiles[retryIdx]] = DOWNLOADING

\* has_high_quality_imagery is running, has returned or has raised, and main
\* has not moved on
InGate ==
    /\ probe # <<>>
    /\ \/ pc \in {"gate", "gate_get", "for", "download"}
       \/ pc = "fatal" /\ fatal = "hard_fault"

\* no tile of the grid has been loaded
GridUntouched ==
    /\ DOMAIN status = Tiles
    /\ \A t \in Tiles :
           /\ status[t] = PENDING /\ image[t] = "none"
           /\ loads[t] = 0 /\ gets[t] = 0 /\ urls[t] = {}
    /\ written = {}

\* C28: has_high_quality_imagery leaves the grid unchanged: for every
\* outcome of the probe loads, after it returns or raises every tile of the
\* grid is still PENDING without an image and the grid's width, height and
\* tile coordinates are as before; only the new probe tiles at the finer
\* zoom change state.
C28_GateLeavesGrid ==
    /\ [](InGate =>
             /\ GridUntouched
             /\ \A k \in DOMAIN corners :
                    corners[k].zoom = origin.zoom + quality_check_delta)
    /\ [][(pc \in {"check", "gate", "gate_get"}) =>
              (/\ UNCHANGED <<width, height, origin, status, image, written, loads, gets, urls>>
               /\ Changed(probe, probe') \subseteq {corner})]_vars

\* the gate has returned True for a grid of several tiles after downloading
\* a probe at a finer zoom
C28_Witness ==
    /\ GateReturned /\ pc = "download" /\ ~rejected
    /\ width = 2 /\ height = 2 /\ quality_check_delta = 1
    /\ probe[1] = DOWNLOADED /\ probe[4] \in {DOWNLOADED, CACHED}
    /\ GridUntouched

\* the gate has raised: the body of a probe's response was not an image
C28_Raised ==
    /\ InGate /\ pc = "fatal" /\ probe[corner] = DOWNLOADING /\ GridUntouched

C29_ErrorKeepsImage == \E c \in DOMAIN status : status[c] = ERROR /\ image[c] = "opened"

\* stitch is reached with every tile loaded
C29_Stitched == pc = "stitch" /\ AllLoaded /\ NTiles >= 2

====
